---- MODULE Spec2Model ----
(***************************************************************************)
(* LibParserUtils: input stream, charset filter and codecs.                *)
(*                                                                         *)
(* Program operations are operators over records (a stream, a filter, a    *)
(* codec); every operator returns the new object together with what the    *)
(* C function returns or writes through its pointer arguments.  Actions    *)
(* apply one operation to the state.  Outcomes the code leaves to the      *)
(* environment (an allocation failing, the contents of buffer memory past  *)
(* the valid length, an uninitialised local) are parameters of the         *)
(* operators, chosen with \E in the actions.                               *)
(*                                                                         *)
(* Bytes are naturals 0..255, code points are naturals; buffers are        *)
(* sequences.  Lengths of the UCS-4 pivot are counted in code points       *)
(* (4 bytes each in the code).                                             *)
(***************************************************************************)
EXTENDS Integers, Sequences, FiniteSets, TLC

VARIABLES
    stream,     \* the parserutils_inputstream_private object
    result,     \* what the last call on the stream returned
    doc,        \* the document the caller feeds to the stream
    appended,   \* history: every raw byte handed to append, in order
    delivered,  \* history: every byte the consumer advanced over after a peek
    inserted,   \* history: every byte handed to insert, in order
    aborted,    \* TRUE once abort() has been called
    creation,   \* the arguments the stream was created with
    flt,        \* a parserutils_filter driven directly
    fsrc,       \* the whole input handed to that filter
    fin,        \* input not yet consumed by the filter (*data, *len)
    fout,       \* concatenation of the output buffers filled so far
    fret,       \* what the last call on that filter returned
    fcall,      \* the last call on that filter
    fmark,      \* where fin and fout stood at the reset that followed a switch
    fentry,     \* the filter and the arguments at entry to the last call, when
                \* that was a process_chunk
    cdc,        \* a parserutils_charset_codec driven directly
    cdir,       \* the direction that codec is used in: "decode" or "encode"
    csrc,       \* the whole input handed to that codec
    cin,        \* input not yet consumed by the codec (*source, *sourcelen)
    cout,       \* concatenation of the output buffers filled so far
    cret,       \* what the last call on that codec returned
    ccall,      \* the arguments of the last call on that codec
    twin,       \* codecs created anew at the last reset of that codec and
                \* given the same calls since
    registry,   \* the alias registry (canon_tab, alias_tab)
    statics,    \* the MIB enums cached by parserutils_charset_mibenum_is_unicode
    query,      \* the last lookup made in the registry and its answer
    bomstatics, \* the static variables of parserutils_inputstream_strip_bom
    threads,    \* two threads, each in the first refill of a stream of its own
    heap,       \* the blocks handed out by the caller's allocator
    hfilter,    \* a client's filter pointer and the fields of that filter
    hcall,      \* the last call made on that filter and what it returned
    rbtree,     \* the root of a parserutils_rbtree
    tcall,      \* the last call on that tree, its arguments and its results
    tmap,       \* history: the value last inserted under each key and not
                \* deleted since (0 where there is none)
    htab,       \* a parserutils_hash: its slots and its chunk array
    hashcall,   \* the last parserutils_hash_insert and what it returned
    interned    \* history: every entry a hash_insert returned, with the
                \* bytes it was asked to intern

streamVars ==
    <<stream, result, doc, appended, delivered, inserted, aborted, creation>>
filterVars == <<flt, fsrc, fin, fout, fret, fcall, fmark, fentry>>
codecVars == <<cdc, cdir, csrc, cin, cout, cret, ccall, twin>>
aliasVars == <<registry, statics, query>>
threadVars == <<bomstatics, threads>>
memVars == <<heap, hfilter, hcall>>
treeVars == <<rbtree, tcall, tmap>>
hashVars == <<htab, hashcall, interned>>
nonStreamVars ==
    <<filterVars, codecVars, aliasVars, threadVars, memVars, treeVars, hashVars>>
nonFilterVars ==
    <<streamVars, codecVars, aliasVars, threadVars, memVars, treeVars, hashVars>>
nonCodecVars ==
    <<streamVars, filterVars, aliasVars, threadVars, memVars, treeVars, hashVars>>
nonAliasVars ==
    <<streamVars, filterVars, codecVars, threadVars, memVars, treeVars, hashVars>>
nonThreadVars ==
    <<streamVars, filterVars, codecVars, aliasVars, memVars, treeVars, hashVars>>
nonMemVars ==
    <<streamVars, filterVars, codecVars, aliasVars, threadVars, treeVars, hashVars>>
nonTreeVars ==
    <<streamVars, filterVars, codecVars, aliasVars, threadVars, memVars, hashVars>>
nonHashVars ==
    <<streamVars, filterVars, codecVars, aliasVars, threadVars, memVars, treeVars>>
vars == <<stream, result, doc, appended, delivered, inserted, aborted,
          creation,
          flt, fsrc, fin, fout, fret, fcall, fmark, fentry,
          cdc, cdir, csrc, cin, cout, cret, ccall, twin,
          registry, statics, query, bomstatics, threads,
          heap, hfilter, hcall,
          rbtree, tcall, tmap, htab, hashcall, interned>>

-----------------------------------------------------------------------------
(* Sequence helpers *)

Min(a, b) == IF a < b THEN a ELSE b
Max(a, b) == IF a > b THEN a ELSE b
Take(s, n) == SubSeq(s, 1, Min(n, Len(s)))
Drop(s, n) == SubSeq(s, n + 1, Len(s))
IsPrefix(p, s) == Len(p) <= Len(s) /\ SubSeq(s, 1, Len(p)) = p

-----------------------------------------------------------------------------
(* Bounds of the model *)

\* code points that fit in the filter's pivot buffer (64 in filter.c:32)
PivotChars == 2
\* bytes initially allocated to a parserutils_buffer
BufferInitial == 6
\* largest output buffer handed to process_chunk when driving a filter directly
MaxOut == 3
\* raw bytes appended to a stream over its life
MaxInput == 4
\* bytes inserted into a stream over its life
MaxInsert == 1
\* largest offset handed to peek
MaxOffset == 1
\* largest byte count handed to advance
MaxAdvance == 3
\* largest value a cursor that left the valid data is followed to
MaxCursor == 4

-----------------------------------------------------------------------------
(* UTF-8 primitives *)

\* length of the sequence a lead byte announces; 0 for a byte that cannot lead
utf8_lead_length(b) ==
    IF b < 128 THEN 1
    ELSE IF b >= 192 /\ b < 224 THEN 2
    ELSE IF b >= 224 /\ b < 240 THEN 3
    ELSE IF b >= 240 /\ b < 248 THEN 4
    ELSE 0

utf8_is_continuation(b) == b >= 128 /\ b < 192

utf8_value(s, n) ==
    CASE n = 1 -> s[1]
      [] n = 2 -> (s[1] - 192) * 64 + (s[2] - 128)
      [] n = 3 -> (s[1] - 224) * 4096 + (s[2] - 128) * 64 + (s[3] - 128)
      [] n = 4 -> (s[1] - 240) * 262144 + (s[2] - 128) * 4096
                    + (s[3] - 128) * 64 + (s[4] - 128)

utf8_min_value(n) ==
    CASE n = 1 -> 0 [] n = 2 -> 128 [] n = 3 -> 2048 [] n = 4 -> 65536

\* decode the character at the head of the non-empty byte sequence s
parserutils_charset_utf8_to_ucs4(s) ==
    LET invalid == [err |-> "INVALID", ucs4 |-> 0, len |-> 0]
        checked(n, v) ==
            IF v < utf8_min_value(n) \/ (v >= 55296 /\ v <= 57343) \/ v > 1114111
            THEN invalid
            ELSE [err |-> "OK", ucs4 |-> v, len |-> n]
        sequence(n) ==
            IF n = 0 THEN invalid
            ELSE IF \E i \in 2..Min(n, Len(s)) : ~utf8_is_continuation(s[i])
            THEN invalid
            ELSE IF Len(s) < n THEN [err |-> "NEEDDATA", ucs4 |-> 0, len |-> 0]
            ELSE checked(n, utf8_value(s, n))
    IN  sequence(utf8_lead_length(s[1]))

\* the UTF-8 bytes of a code point
parserutils_charset_utf8_from_ucs4(v) ==
    IF v < 128 THEN <<v>>
    ELSE IF v < 2048 THEN <<192 + (v \div 64), 128 + (v % 64)>>
    ELSE IF v < 65536
    THEN <<224 + (v \div 4096), 128 + ((v \div 64) % 64), 128 + (v % 64)>>
    ELSE <<240 + (v \div 262144), 128 + ((v \div 4096) % 64),
           128 + ((v \div 64) % 64), 128 + (v % 64)>>

\* byte length of the character whose first byte is b
parserutils_charset_utf8_char_byte_length(b) ==
    LET length(n) ==
            IF n = 0 THEN [err |-> "INVALID", len |-> 0]
            ELSE [err |-> "OK", len |-> n]
    IN  length(utf8_lead_length(b))

-----------------------------------------------------------------------------
(* Charset aliases.  A name is a sequence of bytes without NUL.  A canon   *)
(* is [name, mib_enum]; an alias is [name, canon].  The registry holds the *)
(* two hash tables, each bucket a chain with the newest entry at its head. *)

HASH_SIZE == 43

IS_PUNCT_OR_SPACE(x) ==
    \/ (9 <= x /\ x <= 13)
    \/ (32 <= x /\ x <= 47)
    \/ (58 <= x /\ x <= 64)
    \/ (91 <= x /\ x <= 96)
    \/ (123 <= x /\ x <= 126)

\* tolower() in the C locale
tolower(x) == IF 65 <= x /\ x <= 90 THEN x + 32 ELSE x

\* index of the first byte of s at or after i that is not punctuation or
\* space; Len(s) + 1 when there is none
RECURSIVE SkipPunct(_, _)
SkipPunct(s, i) ==
    IF i <= Len(s) /\ IS_PUNCT_OR_SPACE(s[i]) THEN SkipPunct(s, i + 1) ELSE i

\* the while (true) loop of aliascmp with s1 at index i and s2_pos = j - 1;
\* s1 is NUL-terminated: past its end it reads 0
RECURSIVE aliascmp_loop(_, _, _, _)
aliascmp_loop(s1, i, s2, j) ==
    LET compare(a, b) ==
            IF b > Len(s2) THEN (IF a <= Len(s1) THEN 1 ELSE 0)
            ELSE IF tolower(IF a <= Len(s1) THEN s1[a] ELSE 0) # tolower(s2[b])
            THEN 1
            ELSE aliascmp_loop(s1, a + 1, s2, b + 1)
    IN  compare(SkipPunct(s1, i), SkipPunct(s2, j))

\* a variant that compares the bytes as they are
aliascmp_exact(s1, s2) == IF s1 = s2 THEN 0 ELSE 1

\* 0 if equal, 1 otherwise
aliascmp(s1, s2) ==
    IF Len(s2) = 0 THEN 1 ELSE aliascmp_loop(s1, 1, s2, 1)

\* bitwise exclusive or of two naturals
RECURSIVE BitXor(_, _)
BitXor(a, b) ==
    IF a = 0 THEN b
    ELSE IF b = 0 THEN a
    ELSE ((a + b) % 2) + 2 * BitXor(a \div 2, b \div 2)

\* x & ~0x20
ClearBit5(x) == x - ((x \div 32) % 2) * 32

\* the uint32_t h is kept as its two 16-bit halves [hi, lo]
\* (h * 33) ^ v for v < 65536
hash_step(h, v) ==
    [hi |-> (h.hi * 33 + (h.lo * 33) \div 65536) % 65536,
     lo |-> BitXor((h.lo * 33) % 65536, v)]

\* h % HASH_SIZE
hash_mod(h) == ((h.hi % HASH_SIZE) * (65536 % HASH_SIZE) + h.lo) % HASH_SIZE

\* the while (len--) loop of the hash: h after the bytes of s from index i
RECURSIVE hash_loop(_, _, _)
hash_loop(s, i, h) ==
    IF i > Len(s) THEN h
    ELSE IF IS_PUNCT_OR_SPACE(s[i]) THEN hash_loop(s, i + 1, h)
    ELSE hash_loop(s, i + 1, hash_step(h, ClearBit5(s[i])))

\* the same loop hashing the bytes as they are
RECURSIVE hash_loop_case_sensitive(_, _, _)
hash_loop_case_sensitive(s, i, h) ==
    IF i > Len(s) THEN h
    ELSE IF IS_PUNCT_OR_SPACE(s[i]) THEN hash_loop_case_sensitive(s, i + 1, h)
    ELSE hash_loop_case_sensitive(s, i + 1, hash_step(h, s[i]))

\* a variant that does not fold case
parserutils_charset_hash_val_case_sensitive(alias) ==
    hash_mod(hash_loop_case_sensitive(alias, 1, [hi |-> 0, lo |-> 5381]))

parserutils_charset_hash_val(alias) ==
    hash_mod(hash_loop(alias, 1, [hi |-> 0, lo |-> 5381]))

\* no table loaded: every bucket empty
EmptyRegistry ==
    [canon_tab |-> [i \in 0..(HASH_SIZE - 1) |-> <<>>],
     alias_tab |-> [i \in 0..(HASH_SIZE - 1) |-> <<>>]]

\* every chain freed, every bucket NULL
parserutils_charset_aliases_destroy(reg) ==
    [canon_tab |-> [i \in DOMAIN reg.canon_tab |-> <<>>],
     alias_tab |-> [i \in DOMAIN reg.alias_tab |-> <<>>]]

\* NULL where a canon is expected
NoCanon == [name |-> <<>>, mib_enum |-> 0]

\* allocok: whether the allocator satisfies the request; the answer is the
\* registry and the canon created (found FALSE for NULL)
parserutils_charset_create_canon(reg, canon, mibenum, allocok) ==
    LET c == [name |-> canon, mib_enum |-> mibenum]
        put(hash) ==
            [reg |-> [reg EXCEPT !.canon_tab[hash] = <<c>> \o @],
             found |-> TRUE, canon |-> c]
    IN  IF ~allocok THEN [reg |-> reg, found |-> FALSE, canon |-> NoCanon]
        ELSE put(parserutils_charset_hash_val(canon))

parserutils_charset_create_alias(reg, alias, c, allocok) ==
    LET put(hash) ==
            [reg |-> [reg EXCEPT !.alias_tab[hash] =
                                      <<[name |-> alias, canon |-> c]>> \o @],
             err |-> "OK"]
    IN  IF ~allocok THEN [reg |-> reg, err |-> "NOMEM"]
        ELSE put(parserutils_charset_hash_val(alias))

\* found FALSE for NULL
parserutils_charset_alias_canonicalise(reg, alias) ==
    LET \* cs, as: the entries of the two chains that compare equal to alias
        first(cs, as) ==
            IF cs # <<>> THEN [found |-> TRUE, canon |-> Head(cs)]
            ELSE IF as # <<>> THEN [found |-> TRUE, canon |-> Head(as).canon]
            ELSE [found |-> FALSE, canon |-> NoCanon]
        search(hash) ==
            first(SelectSeq(reg.canon_tab[hash],
                            LAMBDA c : aliascmp(c.name, alias) = 0),
                  SelectSeq(reg.alias_tab[hash],
                            LAMBDA a : aliascmp(a.name, alias) = 0))
    IN  search(parserutils_charset_hash_val(alias))

parserutils_charset_mibenum_from_name(reg, alias) ==
    LET mib(c) == IF c.found THEN c.canon.mib_enum ELSE 0
    IN  mib(parserutils_charset_alias_canonicalise(reg, alias))

\* a variant that takes the first canon it meets, whatever its MIB enum
RECURSIVE mibenum_to_name_from_any(_, _, _)
mibenum_to_name_from_any(reg, mibenum, i) ==
    LET chain(hits) ==
            IF hits # <<>> THEN [found |-> TRUE, name |-> Head(hits).name]
            ELSE mibenum_to_name_from_any(reg, mibenum, i + 1)
    IN  IF i = HASH_SIZE THEN [found |-> FALSE, name |-> <<>>]
        ELSE chain(reg.canon_tab[i])

\* the scan of the buckets from bucket i on; found FALSE for NULL
RECURSIVE mibenum_to_name_from(_, _, _)
mibenum_to_name_from(reg, mibenum, i) ==
    LET \* hits: the canons of bucket i with that MIB enum
        chain(hits) ==
            IF hits # <<>> THEN [found |-> TRUE, name |-> Head(hits).name]
            ELSE mibenum_to_name_from(reg, mibenum, i + 1)
    IN  IF i = HASH_SIZE THEN [found |-> FALSE, name |-> <<>>]
        ELSE chain(SelectSeq(reg.canon_tab[i], LAMBDA c : c.mib_enum = mibenum))

parserutils_charset_mibenum_to_name(reg, mibenum) ==
    mibenum_to_name_from(reg, mibenum, 0)

\* the names parserutils_charset_mibenum_is_unicode looks up, by the static
\* variable that keeps the answer
UnicodeNames ==
    [ucs4 |-> <<85, 67, 83, 45, 52>>,
     ucs2 |-> <<85, 67, 83, 45, 50>>,
     utf8 |-> <<85, 84, 70, 45, 56>>,
     utf16 |-> <<85, 84, 70, 45, 49, 54>>,
     utf16be |-> <<85, 84, 70, 45, 49, 54, 66, 69>>,
     utf16le |-> <<85, 84, 70, 45, 49, 54, 76, 69>>,
     utf32 |-> <<85, 84, 70, 45, 51, 50>>,
     utf32be |-> <<85, 84, 70, 45, 51, 50, 66, 69>>,
     utf32le |-> <<85, 84, 70, 45, 51, 50, 76, 69>>]

\* the function's static variables before its first call
NoStatics == [k \in DOMAIN UnicodeNames |-> 0]

\* st: the static variables; the answer carries their new values
parserutils_charset_mibenum_is_unicode(st, reg, mibenum) ==
    LET answer(s) ==
            [statics |-> s,
             unicode |-> mibenum \in {s.ucs4, s.ucs2, s.utf8, s.utf16, s.utf16be,
                                      s.utf16le, s.utf32, s.utf32be, s.utf32le}]
    IN  answer(IF st.ucs4 = 0
               THEN [k \in DOMAIN UnicodeNames |->
                        parserutils_charset_mibenum_from_name(reg, UnicodeNames[k])]
               ELSE st)

-----------------------------------------------------------------------------
(* Codecs.  A codec is [kind, mibenum, errormode, inval_buf, read_buf,     *)
(* write_buf]: partial input retained by decode, decoded code points that  *)
(* did not fit the destination, code points encode could not write.        *)

MIB_UTF8 == 106
MIB_UTF16 == 1015
MIB_UTF16BE == 1013
MIB_UTF16LE == 1014
MIB_UTF32 == 1017
MIB_UTF32BE == 1018
MIB_UTF32LE == 1019
\* length of the longest byte-order mark
UTF32_BOM_LEN == 4

\* ISO-8859-1, the charset of the model that only the iconv codec handles
MIB_LATIN1 == 4

\* the alias file of the model: canonical name, MIB enum, aliases
AliasFile ==
    << [name |-> <<73, 83, 79, 45, 49, 48, 54, 52, 54, 45, 85, 67, 83, 45, 52>>,
        mib_enum |-> 1001, aliases |-> << UnicodeNames.ucs4 >>],
       [name |-> <<73, 83, 79, 45, 49, 48, 54, 52, 54, 45, 85, 67, 83, 45, 50>>,
        mib_enum |-> 1000, aliases |-> << UnicodeNames.ucs2 >>],
       [name |-> UnicodeNames.utf8, mib_enum |-> MIB_UTF8,
        aliases |-> << <<85, 84, 70, 56>> >>],
       [name |-> UnicodeNames.utf16, mib_enum |-> MIB_UTF16, aliases |-> <<>>],
       [name |-> UnicodeNames.utf16be, mib_enum |-> MIB_UTF16BE, aliases |-> <<>>],
       [name |-> UnicodeNames.utf16le, mib_enum |-> MIB_UTF16LE, aliases |-> <<>>],
       [name |-> UnicodeNames.utf32, mib_enum |-> MIB_UTF32, aliases |-> <<>>],
       [name |-> UnicodeNames.utf32be, mib_enum |-> MIB_UTF32BE, aliases |-> <<>>],
       [name |-> UnicodeNames.utf32le, mib_enum |-> MIB_UTF32LE, aliases |-> <<>>],
       [name |-> <<73, 83, 79, 45, 56, 56, 53, 57, 45, 49>>,
        mib_enum |-> MIB_LATIN1,
        aliases |-> << <<108, 49>> >>] >>

\* the aliases of one record added to the registry, stopping at the first
\* create_alias that fails; allocok[i] says whether the i-th allocation works
RECURSIVE aliases_create_aliases(_, _, _, _, _)
aliases_create_aliases(reg, c, names, i, allocok) ==
    LET created(r) ==
            IF r.err # "OK" THEN reg
            ELSE aliases_create_aliases(r.reg, c, names, i + 1, allocok)
    IN  IF i > Len(names) THEN reg
        ELSE created(parserutils_charset_create_alias(reg, names[i], c,
                                                      allocok[i + 1]))

\* the body of the while (fgets) loop for one record of the file
aliases_create_record(reg, rec, allocok) ==
    LET created(cf) ==
            IF ~cf.found THEN reg
            ELSE aliases_create_aliases(cf.reg, cf.canon, rec.aliases, 1, allocok)
    IN  created(parserutils_charset_create_canon(reg, rec.name, rec.mib_enum,
                                                 allocok[1]))

\* the registry after the records of file from the i-th on, no allocation
\* failing
RECURSIVE parserutils_charset_aliases_create(_, _, _)
parserutils_charset_aliases_create(reg, file, i) ==
    IF i > Len(file) THEN reg
    ELSE parserutils_charset_aliases_create(
             aliases_create_record(reg, file[i], [k \in 1..8 |-> TRUE]),
             file, i + 1)

\* the registry parserutils_initialise leaves for AliasFile
LoadedRegistry == parserutils_charset_aliases_create(EmptyRegistry, AliasFile, 1)

\* NULL where a codec is expected
NullCodec ==
    [kind |-> "NULL", mibenum |-> 0, errormode |-> "LOOSE", cd |-> "none",
     inval_buf |-> <<>>, read_buf |-> <<>>, write_buf |-> <<>>]

\* cd: what the system's iconv does with a character the target charset
\* lacks: "EILSEQ" (fails with that errno) or "NONE" (succeeds, writes nothing)
iconv_codec_create(mib, cd) ==
    [kind |-> "iconv", mibenum |-> mib, errormode |-> "LOOSE", cd |-> cd,
     inval_buf |-> <<>>, read_buf |-> <<>>, write_buf |-> <<>>]

\* the first handler of the table that handles the charset creates the codec:
\* the UTF-8 codec, or iconv for ISO-8859-1
parserutils_charset_codec_create(mib) ==
    IF mib = MIB_LATIN1 THEN iconv_codec_create(mib, "EILSEQ")
    ELSE [kind |-> "utf8", mibenum |-> mib, errormode |-> "LOOSE",
          cd |-> "none",
          inval_buf |-> <<>>, read_buf |-> <<>>, write_buf |-> <<>>]

\* decode the bytes of data one character at a time into at most cap code
\* points; out holds the code points written so far
RECURSIVE charset_utf8_codec_read_chars(_, _, _, _)
charset_utf8_codec_read_chars(c, data, cap, out) ==
    LET \* the character read is ucs4 and took used bytes of data
        output(ucs4, used) ==
            IF Len(out) < cap
            THEN charset_utf8_codec_read_chars(c, Drop(data, used), cap,
                                               Append(out, ucs4))
            ELSE [c |-> [c EXCEPT !.read_buf = <<ucs4>>],
                  rest |-> Drop(data, used), out |-> out, err |-> "NOMEM"]
        \* r: what parserutils_charset_utf8_to_ucs4 answered
        read(r) ==
            IF r.err = "NEEDDATA"
            THEN [c |-> [c EXCEPT !.inval_buf = data], rest |-> <<>>,
                  out |-> out, err |-> "NEEDDATA"]
            ELSE IF r.err = "INVALID" /\ c.errormode = "STRICT"
            THEN [c |-> c, rest |-> data, out |-> out, err |-> "INVALID"]
            ELSE IF r.err = "OK" THEN output(r.ucs4, r.len)
            ELSE output(65533, 1)
    IN  IF data = <<>> THEN [c |-> c, rest |-> <<>>, out |-> out, err |-> "OK"]
        ELSE read(parserutils_charset_utf8_to_ucs4(data))

charset_utf8_codec_decode(c, src, cap) ==
    LET \* r: what reading the retained bytes followed by src gave
        done(r) ==
            IF Len(r.rest) > Len(src)
            THEN [c |-> [r.c EXCEPT !.inval_buf = c.inval_buf], rest |-> src,
                  out |-> r.out, err |-> r.err]
            ELSE r
    IN  IF Len(c.read_buf) > cap
        THEN [c |-> c, rest |-> src, out |-> <<>>, err |-> "NOMEM"]
        ELSE done(charset_utf8_codec_read_chars(
                      [c EXCEPT !.read_buf = <<>>, !.inval_buf = <<>>],
                      c.inval_buf \o src, cap, c.read_buf))

\* encode code points into at most space bytes; out holds the bytes written
RECURSIVE charset_utf8_codec_write_chars(_, _, _, _)
charset_utf8_codec_write_chars(c, cps, space, out) ==
    LET \* b: the bytes of the first code point
        write(b) ==
            IF Len(out) + Len(b) <= space
            THEN charset_utf8_codec_write_chars(c, Tail(cps), space, out \o b)
            ELSE [c |-> [c EXCEPT !.write_buf = <<Head(cps)>>],
                  rest |-> Tail(cps), out |-> out, err |-> "NOMEM"]
    IN  IF cps = <<>> THEN [c |-> c, rest |-> <<>>, out |-> out, err |-> "OK"]
        ELSE write(parserutils_charset_utf8_from_ucs4(Head(cps)))

charset_utf8_codec_encode(c, cps, space) ==
    LET \* pending: the bytes of the code point retained by the last call
        flush(pending) ==
            IF Len(pending) > space
            THEN [c |-> c, rest |-> cps, out |-> <<>>, err |-> "NOMEM"]
            ELSE charset_utf8_codec_write_chars([c EXCEPT !.write_buf = <<>>],
                                                cps, space, pending)
    IN  flush(IF c.write_buf = <<>> THEN <<>>
              ELSE parserutils_charset_utf8_from_ucs4(c.write_buf[1]))

\* size of the iconv codec's buffer for incomplete input
INVAL_BUFSIZE == 32

\* iconv(read_cd) given the non-empty bytes s and room for one UCS-4
\* character: the character read and the bytes used, or the errno
iconv_to_ucs4(mib, s) ==
    LET utf8(r) ==
            IF r.err = "OK" THEN [ret |-> "OK", ucs4 |-> r.ucs4, used |-> r.len]
            ELSE IF r.err = "NEEDDATA"
            THEN [ret |-> "EINVAL", ucs4 |-> 0, used |-> 0]
            ELSE [ret |-> "EILSEQ", ucs4 |-> 0, used |-> 0]
    IN  IF mib = MIB_LATIN1 THEN [ret |-> "OK", ucs4 |-> s[1], used |-> 1]
        ELSE utf8(parserutils_charset_utf8_to_ucs4(s))

\* the bytes iconv(write_cd) writes for the character v; has FALSE when the
\* charset lacks it
iconv_from_ucs4(mib, v) ==
    IF mib = MIB_LATIN1
    THEN IF v < 256 THEN [has |-> TRUE, bytes |-> <<v>>]
         ELSE [has |-> FALSE, bytes |-> <<>>]
    ELSE IF (v >= 55296 /\ v <= 57343) \/ v > 1114111
    THEN [has |-> FALSE, bytes |-> <<>>]
    ELSE [has |-> TRUE, bytes |-> parserutils_charset_utf8_from_ucs4(v)]

\* cap: the UCS-4 characters dest has room for; out: those written so far
iconv_codec_output_decoded_char(c, ucs4, cap, out) ==
    IF Len(out) >= cap
    THEN [c |-> [c EXCEPT !.read_buf = <<ucs4>>], out |-> out, err |-> "NOMEM"]
    ELSE [c |-> c, out |-> Append(out, ucs4), err |-> "OK"]

\* what is left of src once the search for the start of the next valid
\* sequence after an illegal one has ended
RECURSIVE iconv_codec_skip_illegal(_, _)
iconv_codec_skip_illegal(mib, src) ==
    IF Len(src) > 1
    THEN IF iconv_to_ucs4(mib, Tail(src)).ret # "EILSEQ" THEN Tail(src)
         ELSE iconv_codec_skip_illegal(mib, Tail(src))
    ELSE <<>>

\* a variant that leaves the character in the input when the output is full
iconv_codec_read_char_unclaimed(c, src, cap, out) ==
    LET \* od: what iconv_codec_output_decoded_char answered
        output(od, rest) ==
            [c |-> [od.c EXCEPT !.inval_buf = <<>>],
             rest |-> IF od.err = "NOMEM" THEN src ELSE rest,
             out |-> od.out, err |-> od.err]
        converted(r) ==
            IF r.ret = "OK"
            THEN output(iconv_codec_output_decoded_char(c, r.ucs4, cap, out),
                        Drop(src, r.used))
            ELSE IF r.ret = "EINVAL"
            THEN IF Len(src) > INVAL_BUFSIZE
                 THEN [c |-> c, rest |-> src, out |-> out, err |-> "ABORT"]
                 ELSE [c |-> [c EXCEPT !.inval_buf = src], rest |-> <<>>,
                       out |-> out, err |-> "OK"]
            ELSE IF c.errormode = "STRICT"
            THEN [c |-> [c EXCEPT !.inval_buf = <<>>], rest |-> src,
                  out |-> out, err |-> "INVALID"]
            ELSE output(iconv_codec_output_decoded_char(c, 65533, cap, out),
                        iconv_codec_skip_illegal(c.mibenum, src))
    IN  converted(iconv_to_ucs4(c.mibenum, src))

\* src is not empty
iconv_codec_read_char(c, src, cap, out) ==
    LET \* od: what iconv_codec_output_decoded_char answered
        output(od, rest) ==
            [c |-> [od.c EXCEPT !.inval_buf = <<>>], rest |-> rest,
             out |-> od.out, err |-> od.err]
        converted(r) ==
            IF r.ret = "OK"
            THEN output(iconv_codec_output_decoded_char(c, r.ucs4, cap, out),
                        Drop(src, r.used))
            ELSE IF r.ret = "EINVAL"
            THEN IF Len(src) > INVAL_BUFSIZE
                 THEN [c |-> c, rest |-> src, out |-> out, err |-> "ABORT"]
                 ELSE [c |-> [c EXCEPT !.inval_buf = src], rest |-> <<>>,
                       out |-> out, err |-> "OK"]
            ELSE IF c.errormode = "STRICT"
            THEN [c |-> [c EXCEPT !.inval_buf = <<>>], rest |-> src,
                  out |-> out, err |-> "INVALID"]
            ELSE output(iconv_codec_output_decoded_char(c, 65533, cap, out),
                        iconv_codec_skip_illegal(c.mibenum, src))
    IN  converted(iconv_to_ucs4(c.mibenum, src))

\* the while (*sourcelen > 0) loop of decode
RECURSIVE iconv_codec_decode_loop(_, _, _, _)
iconv_codec_decode_loop(c, src, cap, out) ==
    LET read(r) ==
            IF r.err # "OK" THEN r
            ELSE iconv_codec_decode_loop(r.c, r.rest, cap, r.out)
    IN  IF Len(src) = 0 THEN [c |-> c, rest |-> src, out |-> out, err |-> "OK"]
        ELSE read(iconv_codec_read_char(c, src, cap, out))

\* decode once the output left over from the last call is written; c.read_buf
\* is empty
iconv_codec_decode_input(c, src, cap, out) ==
    LET \* orig_l: the bytes of src copied behind the retained ones; r: what
        \* iconv_codec_read_char answered for the two together
        fixed(orig_l, r, taken) ==
            IF r.err # "OK" /\ r.err # "NOMEM"
            THEN [c |-> r.c, rest |-> src, out |-> r.out, err |-> r.err]
            ELSE IF (orig_l + Len(c.inval_buf)) - Len(r.rest) = 0
            THEN [c |-> r.c, rest |-> Drop(src, taken), out |-> r.out,
                  err |-> "ABORT"]
            ELSE IF r.err # "OK"
            THEN [c |-> r.c, rest |-> Drop(src, taken), out |-> r.out,
                  err |-> r.err]
            ELSE iconv_codec_decode_loop(r.c, Drop(src, taken), cap, r.out)
        resolved(orig_l, r) == fixed(orig_l, r, Max(orig_l - Len(r.rest), 0))
        incomplete(orig_l) ==
            resolved(orig_l,
                     iconv_codec_read_char(c, c.inval_buf \o Take(src, orig_l),
                                           cap, out))
    IN  IF Len(c.inval_buf) > 0
        THEN incomplete(Min(INVAL_BUFSIZE - Len(c.inval_buf) - 1, Len(src)))
        ELSE iconv_codec_decode_loop(c, src, cap, out)

iconv_codec_decode(c, src, cap) ==
    IF Len(c.read_buf) > 0
    THEN IF cap < Len(c.read_buf)
         THEN [c |-> c, rest |-> src, out |-> <<>>, err |-> "NOMEM"]
         ELSE iconv_codec_decode_input([c EXCEPT !.read_buf = <<>>], src, cap,
                                       c.read_buf)
    ELSE iconv_codec_decode_input(c, src, cap, <<>>)

\* space: the bytes dest has room for; the answer is the bytes written
iconv_codec_write_char(c, ucs4, space) ==
    LET substitute(w) ==
            IF Len(w.bytes) > space THEN [out |-> <<>>, err |-> "NOMEM"]
            ELSE IF ~w.has THEN [out |-> <<>>, err |-> "ABORT"]
            ELSE [out |-> w.bytes, err |-> "OK"]
        written(w) ==
            IF w.has
            THEN IF Len(w.bytes) > space THEN [out |-> <<>>, err |-> "NOMEM"]
                 ELSE [out |-> w.bytes, err |-> "OK"]
            ELSE IF c.cd = "EILSEQ" THEN [out |-> <<>>, err |-> "ABORT"]
            ELSE IF c.errormode = "STRICT" THEN [out |-> <<>>, err |-> "INVALID"]
            ELSE substitute(iconv_from_ucs4(
                     c.mibenum,
                     IF parserutils_charset_mibenum_is_unicode(
                            NoStatics, LoadedRegistry, c.mibenum).unicode
                     THEN 65533 ELSE 63))
    IN  written(iconv_from_ucs4(c.mibenum, ucs4))

\* a variant that retains the character in every case of failure
RECURSIVE iconv_codec_encode_loop_retaining(_, _, _, _)
iconv_codec_encode_loop_retaining(c, cps, space, out) ==
    LET written(w) ==
            IF w.err # "OK"
            THEN [c |-> [c EXCEPT !.write_buf = <<Head(cps)>>],
                  rest |-> Tail(cps), out |-> out, err |-> w.err]
            ELSE iconv_codec_encode_loop_retaining(c, Tail(cps), space,
                                                   out \o w.out)
    IN  IF Len(cps) = 0 THEN [c |-> c, rest |-> cps, out |-> out, err |-> "OK"]
        ELSE written(iconv_codec_write_char(c, Head(cps), space - Len(out)))

\* the while (*sourcelen > 0) loop of encode
RECURSIVE iconv_codec_encode_loop(_, _, _, _)
iconv_codec_encode_loop(c, cps, space, out) ==
    LET written(w) ==
            IF w.err # "OK"
            THEN [c |-> [c EXCEPT !.write_buf = IF w.err = "INVALID" THEN <<>>
                                                ELSE <<Head(cps)>>],
                  rest |-> Tail(cps), out |-> out, err |-> w.err]
            ELSE iconv_codec_encode_loop(c, Tail(cps), space, out \o w.out)
    IN  IF Len(cps) = 0 THEN [c |-> c, rest |-> cps, out |-> out, err |-> "OK"]
        ELSE written(iconv_codec_write_char(c, Head(cps), space - Len(out)))

iconv_codec_encode(c, cps, space) ==
    LET outstanding(w) ==
            IF w.err # "OK"
            THEN [c |-> c, rest |-> cps, out |-> <<>>, err |-> w.err]
            ELSE iconv_codec_encode_loop([c EXCEPT !.write_buf = <<>>], cps,
                                         space, w.out)
    IN  IF Len(c.write_buf) > 0
        THEN outstanding(iconv_codec_write_char(c, c.write_buf[1], space))
        ELSE iconv_codec_encode_loop(c, cps, space, <<>>)

\* a variant that keeps the character decoded and not yet written
iconv_codec_reset_keeping_output(c) ==
    [c |-> [c EXCEPT !.inval_buf = <<>>, !.write_buf = <<>>], err |-> "OK"]

iconv_codec_reset(c) ==
    [c |-> [c EXCEPT !.inval_buf = <<>>, !.read_buf = <<>>, !.write_buf = <<>>],
     err |-> "OK"]

\* drop any retained partial input and output
charset_utf8_codec_reset(c) ==
    [c |-> [c EXCEPT !.inval_buf = <<>>, !.read_buf = <<>>, !.write_buf = <<>>],
     err |-> "OK"]

\* set the error mode of a codec
parserutils_charset_codec_setopt(c, mode) ==
    IF c.kind = "NULL" THEN [c |-> c, err |-> "BADPARM"]
    ELSE [c |-> [c EXCEPT !.errormode = mode], err |-> "OK"]

parserutils_charset_codec_decode(c, src, cap) ==
    IF c.kind = "NULL"
    THEN [c |-> c, rest |-> src, out |-> <<>>, err |-> "BADPARM"]
    ELSE IF c.kind = "iconv" THEN iconv_codec_decode(c, src, cap)
    ELSE charset_utf8_codec_decode(c, src, cap)

parserutils_charset_codec_encode(c, cps, space) ==
    IF c.kind = "NULL"
    THEN [c |-> c, rest |-> cps, out |-> <<>>, err |-> "BADPARM"]
    ELSE IF c.kind = "iconv" THEN iconv_codec_encode(c, cps, space)
    ELSE charset_utf8_codec_encode(c, cps, space)

parserutils_charset_codec_reset(c) ==
    IF c.kind = "NULL" THEN [c |-> c, err |-> "BADPARM"]
    ELSE IF c.kind = "iconv" THEN iconv_codec_reset(c)
    ELSE charset_utf8_codec_reset(c)

-----------------------------------------------------------------------------
(* Filter: [read_codec, write_codec, leftover, pivot_left, pivot_len,      *)
(* encoding].  pivot_left is the part of the pivot still to be written     *)
(* (<<>> for NULL), pivot_len its length in bytes.                         *)

parserutils_filter_create(int_enc) ==
    [read_codec |-> parserutils_charset_codec_create(MIB_UTF8),
     write_codec |-> parserutils_charset_codec_create(int_enc),
     leftover |-> FALSE, pivot_left |-> <<>>, pivot_len |-> 0,
     encoding |-> MIB_UTF8]

\* the while (*len > 0) loop of process_chunk; out is the output written so far
RECURSIVE filter_process_loop(_, _, _, _)
filter_process_loop(f, data, outlen, out) ==
    LET \* rd: what decode answered; wr: what encode of the pivot answered
        readFailed(rd) == rd.err # "OK" /\ rd.err # "NOMEM"
        afterRead(rd) == [f EXCEPT !.read_codec = rd.c]
        afterWrite(rd, wr) ==
            [f EXCEPT !.read_codec = rd.c, !.write_codec = wr.c]
        written(rd, wr) ==
            IF wr.err # "OK"
            THEN [f |-> [afterWrite(rd, wr) EXCEPT
                             !.leftover = TRUE, !.pivot_left = wr.rest,
                             !.pivot_len = 4 * Len(wr.rest)],
                  data |-> rd.rest, out |-> out \o wr.out, err |-> wr.err]
            ELSE IF readFailed(rd)
            THEN [f |-> afterWrite(rd, wr), data |-> rd.rest,
                  out |-> out \o wr.out, err |-> rd.err]
            ELSE filter_process_loop(afterWrite(rd, wr), rd.rest, outlen,
                                     out \o wr.out)
        decoded(rd) ==
            IF Len(rd.out) > 0
            THEN written(rd, parserutils_charset_codec_encode(
                                 f.write_codec, rd.out, outlen - Len(out)))
            ELSE IF readFailed(rd)
            THEN [f |-> afterRead(rd), data |-> rd.rest, out |-> out,
                  err |-> rd.err]
            ELSE filter_process_loop(afterRead(rd), rd.rest, outlen, out)
    IN  IF Len(data) = 0
        THEN [f |-> f, data |-> data, out |-> out, err |-> "OK"]
        ELSE decoded(parserutils_charset_codec_decode(f.read_codec, data,
                                                      PivotChars))

\* a variant that goes on to read input after the retained pivot did not fit
parserutils_filter_process_chunk_reading_on(f, data, outlen) ==
    LET flushed(wr) ==
            filter_process_loop(
                [f EXCEPT !.write_codec = wr.c, !.pivot_left = wr.rest,
                          !.pivot_len = 4 * Len(wr.rest)],
                data, outlen, wr.out)
    IN  IF f.leftover
        THEN flushed(parserutils_charset_codec_encode(f.write_codec,
                                                      f.pivot_left, outlen))
        ELSE filter_process_loop(f, data, outlen, <<>>)

\* a variant that forgets the retained pivot instead of writing it first
parserutils_filter_process_chunk_dropping_leftover(f, data, outlen) ==
    filter_process_loop([f EXCEPT !.pivot_left = <<>>, !.pivot_len = 0,
                                  !.leftover = FALSE],
                        data, outlen, <<>>)

parserutils_filter_process_chunk(f, data, outlen) ==
    LET \* wr: what encode of the retained pivot answered
        flushed(wr) ==
            IF wr.err # "OK"
            THEN [f |-> [f EXCEPT !.write_codec = wr.c,
                                  !.pivot_left = wr.rest,
                                  !.pivot_len = 4 * Len(wr.rest)],
                  data |-> data, out |-> wr.out, err |-> wr.err]
            ELSE filter_process_loop(
                     [f EXCEPT !.write_codec = wr.c, !.pivot_left = <<>>,
                               !.pivot_len = 0, !.leftover = FALSE],
                     data, outlen, wr.out)
    IN  IF f.leftover
        THEN flushed(parserutils_charset_codec_encode(f.write_codec,
                                                      f.pivot_left, outlen))
        ELSE filter_process_loop(f, data, outlen, <<>>)

\* a variant that gives up the read codec before it looks the name up
filter_set_encoding_releasing_first(f, mib, created) ==
    IF mib = 0
    THEN [f |-> [f EXCEPT !.read_codec = NullCodec], err |-> "INVALID"]
    ELSE IF f.encoding = mib THEN [f |-> f, err |-> "OK"]
    ELSE IF ~created
    THEN [f |-> [f EXCEPT !.read_codec = NullCodec], err |-> "NOMEM"]
    ELSE [f |-> [f EXCEPT !.read_codec = parserutils_charset_codec_create(mib),
                          !.encoding = mib],
          err |-> "OK"]

\* filter_set_encoding for a name that canonicalises to mib (0: unknown name);
\* created: whether parserutils_charset_codec_create gives a codec
filter_set_encoding(f, mib, created) ==
    IF mib = 0 THEN [f |-> f, err |-> "INVALID"]
    ELSE IF f.encoding = mib THEN [f |-> f, err |-> "OK"]
    ELSE IF ~created
    THEN [f |-> [f EXCEPT !.read_codec = NullCodec], err |-> "NOMEM"]
    ELSE [f |-> [f EXCEPT !.read_codec = parserutils_charset_codec_create(mib),
                          !.encoding = mib],
          err |-> "OK"]

parserutils_filter_setopt(f, mib, created) == filter_set_encoding(f, mib, created)

\* a variant that resets the codecs and keeps the pivot left over
parserutils_filter_reset_keeping_pivot(f) ==
    LET write_reset(g, wr) == [f |-> [g EXCEPT !.write_codec = wr.c], err |-> wr.err]
        read_reset(rd) ==
            IF rd.err # "OK" THEN [f |-> f, err |-> rd.err]
            ELSE write_reset([f EXCEPT !.read_codec = rd.c],
                             parserutils_charset_codec_reset(f.write_codec))
    IN  read_reset(parserutils_charset_codec_reset(f.read_codec))

\* a variant that drops the pivot left over first and clears the flag only
\* when it finds no pivot: the flag outlives one call
parserutils_filter_reset_clearing_late(f) ==
    LET cleared == [f EXCEPT !.pivot_left = <<>>, !.pivot_len = 0,
                             !.leftover = (f.pivot_left # <<>>)]
        write_reset(g, wr) == [f |-> [g EXCEPT !.write_codec = wr.c], err |-> wr.err]
        read_reset(rd) ==
            IF rd.err # "OK" THEN [f |-> cleared, err |-> rd.err]
            ELSE write_reset([cleared EXCEPT !.read_codec = rd.c],
                             parserutils_charset_codec_reset(f.write_codec))
    IN  read_reset(parserutils_charset_codec_reset(f.read_codec))

parserutils_filter_reset(f) ==
    LET cleared == [f EXCEPT !.pivot_left = <<>>, !.pivot_len = 0,
                             !.leftover = FALSE]
        write_reset(g, wr) == [f |-> [g EXCEPT !.write_codec = wr.c], err |-> wr.err]
        read_reset(rd) ==
            IF rd.err # "OK" THEN [f |-> cleared, err |-> rd.err]
            ELSE write_reset([cleared EXCEPT !.read_codec = rd.c],
                             parserutils_charset_codec_reset(f.write_codec))
    IN  read_reset(parserutils_charset_codec_reset(f.read_codec))

-----------------------------------------------------------------------------
(* Byte buffers: [data, allocated]; length is Len(data).  What the memory  *)
(* between length and allocated holds is not part of the state.            *)

parserutils_buffer_create == [data |-> <<>>, allocated |-> BufferInitial]

RECURSIVE buffer_grown(_, _)
buffer_grown(allocated, need) ==
    IF need <= allocated THEN allocated ELSE buffer_grown(2 * allocated, need)

\* allocok: whether the allocator satisfies the request
parserutils_buffer_grow(b, allocok) ==
    IF allocok THEN [b |-> [b EXCEPT !.allocated = 2 * b.allocated], err |-> "OK"]
    ELSE [b |-> b, err |-> "NOMEM"]

parserutils_buffer_insert(b, offset, d, allocok) ==
    IF offset > Len(b.data) THEN [b |-> b, err |-> "BADPARM"]
    ELSE IF Len(b.data) + Len(d) > b.allocated /\ ~allocok
    THEN [b |-> b, err |-> "NOMEM"]
    ELSE [b |-> [data |-> Take(b.data, offset) \o d \o Drop(b.data, offset),
                 allocated |-> buffer_grown(b.allocated, Len(b.data) + Len(d))],
          err |-> "OK"]

parserutils_buffer_append(b, d, allocok) ==
    parserutils_buffer_insert(b, Len(b.data), d, allocok)

parserutils_buffer_discard(b, offset, len) ==
    IF offset + len > Len(b.data) THEN [b |-> b, err |-> "BADPARM"]
    ELSE [b |-> [b EXCEPT !.data = Take(b.data, offset) \o Drop(b.data, offset + len)],
          err |-> "OK"]

-----------------------------------------------------------------------------
(* Input stream: [raw, utf8, cursor, had_eof, done_first_chunk, mibenum,   *)
(* encsrc, input, csdetect].                                               *)

\* named: an encoding name is given (enc is not NULL); enc: the MIB enum of
\* that name, 0 when the registry lacks it; csdetect: TRUE when a detection
\* function is given; uninit: what the memory of the new stream held, which
\* stays in encsrc when the name is not a registered one
parserutils_inputstream_create(named, enc, encsrc, csdetect, uninit) ==
    [raw |-> parserutils_buffer_create,
     utf8 |-> parserutils_buffer_create,
     cursor |-> 0,
     had_eof |-> FALSE,
     done_first_chunk |-> FALSE,
     mibenum |-> IF named THEN enc ELSE 0,
     encsrc |-> IF ~named THEN 0 ELSE IF enc # 0 THEN encsrc ELSE uninit,
     input |-> IF named /\ enc # 0
               THEN filter_set_encoding(parserutils_filter_create(MIB_UTF8), enc,
                                         TRUE).f
               ELSE parserutils_filter_create(MIB_UTF8),
     csdetect |-> csdetect]

parserutils_inputstream_append(s, isnull, d, allocok) ==
    LET appended_to(r) == [s |-> [s EXCEPT !.raw = r.b], err |-> r.err]
    IN  IF isnull THEN [s |-> [s EXCEPT !.had_eof = TRUE], err |-> "OK"]
        ELSE appended_to(parserutils_buffer_append(s.raw, d, allocok))

\* a variant that splices at the start of the utf8 buffer, not at the cursor
parserutils_inputstream_insert_at_start(s, d, allocok) ==
    LET inserted_in(r) == [s |-> [s EXCEPT !.utf8 = r.b], err |-> r.err]
    IN  inserted_in(parserutils_buffer_insert(s.utf8, 0, d, allocok))

parserutils_inputstream_insert(s, d, allocok) ==
    LET inserted_in(r) == [s |-> [s EXCEPT !.utf8 = r.b], err |-> r.err]
    IN  inserted_in(parserutils_buffer_insert(s.utf8, s.cursor, d, allocok))

\* a variant that reports the fallback whatever the stream holds
parserutils_inputstream_read_charset_fallback(s) ==
    [found |-> TRUE, name |-> UnicodeNames.utf8, source |-> 0]

\* the charset name returned (found FALSE for NULL) and *source
parserutils_inputstream_read_charset(s) ==
    LET named(r) == [found |-> r.found, name |-> r.name, source |-> s.encsrc]
    IN  IF s.encsrc = 0
        THEN [found |-> TRUE, name |-> UnicodeNames.utf8, source |-> 0]
        ELSE named(parserutils_charset_mibenum_to_name(LoadedRegistry,
                                                       s.mibenum))

StartsWith(d, bom) == Len(d) >= Len(bom) /\ SubSeq(d, 1, Len(bom)) = bom

\* a variant that recognises a byte-order mark by the bytes alone, trying the
\* longest marks first
parserutils_inputstream_strip_bom_by_content(mibenum, buffer) ==
    LET boms == <<<<0, 0, 254, 255>>, <<255, 254, 0, 0>>, <<239, 187, 191>>,
                  <<254, 255>>, <<255, 254>>>>
        hits == {i \in 1..Len(boms) : StartsWith(buffer.data, boms[i])}
    IN  IF hits # {}
        THEN parserutils_buffer_discard(
                 buffer, 0, Len(boms[CHOOSE i \in hits : \A j \in hits : i <= j]))
        ELSE [b |-> buffer, err |-> "OK"]

parserutils_inputstream_strip_bom(mibenum, buffer) ==
    LET strip(bom) ==
            IF bom # <<>> /\ StartsWith(buffer.data, bom)
            THEN parserutils_buffer_discard(buffer, 0, Len(bom))
            ELSE [b |-> buffer, err |-> "OK"]
    IN  strip(CASE mibenum = MIB_UTF8 -> <<239, 187, 191>>
                [] mibenum = MIB_UTF16BE -> <<254, 255>>
                [] mibenum = MIB_UTF16LE -> <<255, 254>>
                [] mibenum = MIB_UTF32BE -> <<0, 0, 254, 255>>
                [] mibenum = MIB_UTF32LE -> <<255, 254, 0, 0>>
                [] OTHER -> <<>>)

\* memory of the utf8 buffer after out was written at its start while the
\* recorded length stayed Len(old)
Overwritten(old, out) == Take(out \o Drop(old, Len(out)), Len(old))

\* env.det: what the detection function answers, [err, mibenum, encsrc];
\* env.growok: whether growing the utf8 buffer succeeds
parserutils_inputstream_refill_buffer(s, env) ==
    LET first == ~s.done_first_chunk
        detected == ~s.done_first_chunk /\ s.csdetect
        mib == IF s.done_first_chunk THEN s.mibenum
               ELSE IF s.csdetect THEN env.det.mibenum ELSE MIB_UTF8
        src == IF s.done_first_chunk THEN s.encsrc
               ELSE IF s.csdetect THEN env.det.encsrc ELSE 0
        \* s1: the stream once the first chunk is dealt with; kept: the unread
        \* bytes moved to the bottom of the utf8 buffer; allocated: its size
        \* when process_chunk is called; pc: what process_chunk answered
        discarded(s1, kept, allocated, pc, partial, dis) ==
            IF dis.err # "OK"
            THEN [s |-> [s1 EXCEPT !.input = pc.f, !.utf8 = partial],
                  err |-> dis.err, abort |-> FALSE]
            ELSE [s |-> [s1 EXCEPT !.input = pc.f, !.raw = dis.b,
                                   !.utf8 = [data |-> kept \o pc.out,
                                             allocated |-> allocated],
                                   !.cursor = 0],
                  err |-> "OK", abort |-> FALSE]
        \* partial: the utf8 buffer as a return before the fix-up leaves it
        processed(s1, kept, allocated, pc, partial) ==
            IF pc.err # "OK" /\ pc.err # "NOMEM"
            THEN [s |-> [s1 EXCEPT !.input = pc.f, !.utf8 = partial],
                  err |-> pc.err, abort |-> FALSE]
            ELSE discarded(s1, kept, allocated, pc, partial,
                           parserutils_buffer_discard(
                               s1.raw, 0, Len(s1.raw.data) - Len(pc.data)))
        filled(s1, atend, kept, allocated, pc) ==
            processed(s1, kept, allocated, pc,
                      IF atend
                      THEN [s1.utf8 EXCEPT
                               !.data = Overwritten(s1.utf8.data, pc.out)]
                      ELSE [data |-> kept, allocated |-> allocated])
        fill(s1, atend, kept, allocated) ==
            IF ~atend /\ allocated # s1.utf8.allocated /\ ~env.growok
            THEN [s |-> [s1 EXCEPT !.utf8.data = kept], err |-> "NOMEM",
                  abort |-> FALSE]
            ELSE filled(s1, atend, kept, allocated,
                        parserutils_filter_process_chunk(
                            s1.input, s1.raw.data, allocated - Len(kept)))
        slide(s1, atend, kept) ==
            fill(s1, atend, kept,
                 IF ~atend /\ Len(kept) > s1.utf8.allocated \div 2
                 THEN 2 * s1.utf8.allocated ELSE s1.utf8.allocated)
        stripped(bom) ==
            IF bom.err # "OK"
            THEN [s |-> [s EXCEPT !.mibenum = mib, !.encsrc = src],
                  err |-> bom.err, abort |-> FALSE]
            ELSE slide([s EXCEPT !.mibenum = mib, !.encsrc = src,
                                 !.raw = bom.b, !.done_first_chunk = TRUE],
                       s.cursor = Len(s.utf8.data),
                       IF s.cursor = Len(s.utf8.data) THEN <<>>
                       ELSE Drop(s.utf8.data, s.cursor))
    IN  IF detected /\ env.det.err # "OK"
        THEN [s |-> s, err |-> env.det.err, abort |-> FALSE]
        ELSE IF first /\ mib = 0
        THEN [s |-> [s EXCEPT !.mibenum = mib, !.encsrc = src],
              err |-> "OK", abort |-> TRUE]
        ELSE stripped(IF first
                      THEN parserutils_inputstream_strip_bom(mib, s.raw)
                      ELSE [b |-> s.raw, err |-> "OK"])

\* the byte at index i (from 0) of the utf8 buffer's memory; env.stale is what
\* the memory holds past the valid length
Utf8Byte(s, i, env) ==
    IF i < Len(s.utf8.data) THEN s.utf8.data[i + 1] ELSE env.stale

EofOrOod(s) == IF s.had_eof THEN "EOF" ELSE "OOD"

Sentinel(s, kind, abort) ==
    [s |-> s, kind |-> kind, pos |-> 0, len |-> 0, abort |-> abort]

parserutils_inputstream_peek_slow(s, offset, env) ==
    LET \* t: the stream after the refill; b: the byte read; bl: what
        \* parserutils_charset_utf8_char_byte_length answered for it
        sized(t, bl) ==
            IF bl.err # "OK" /\ bl.err # "NEEDDATA"
            THEN Sentinel(t, "OOD", FALSE)
            ELSE IF bl.err = "NEEDDATA" THEN Sentinel(t, EofOrOod(t), FALSE)
            ELSE [s |-> t, kind |-> "CHAR", pos |-> t.cursor + offset,
                  len |-> bl.len, abort |-> FALSE]
        read(t, b) ==
            IF b < 128
            THEN [s |-> t, kind |-> "CHAR", pos |-> t.cursor + offset,
                  len |-> 1, abort |-> FALSE]
            ELSE sized(t, parserutils_charset_utf8_char_byte_length(b))
        refilled(rf) ==
            IF rf.abort THEN Sentinel(rf.s, "OOD", TRUE)
            ELSE IF rf.err # "OK" THEN Sentinel(rf.s, "OOD", FALSE)
            ELSE read(rf.s, Utf8Byte(rf.s, rf.s.cursor + offset, env))
    IN  IF Len(s.raw.data) = 0 THEN Sentinel(s, EofOrOod(s), FALSE)
        ELSE refilled(parserutils_inputstream_refill_buffer(s, env))

\* env.uninit: the value of the local len when it was never assigned
parserutils_inputstream_peek(s, offset, env) ==
    LET \* bl: the error and len the first if statement leaves
        looked(bl) ==
            IF bl.err # "OK" /\ bl.err # "NEEDDATA"
            THEN Sentinel(s, "OOD", FALSE)
            ELSE IF s.cursor + offset = Len(s.utf8.data) \/ bl.err = "NEEDDATA"
            THEN parserutils_inputstream_peek_slow(s, offset, env)
            ELSE [s |-> s, kind |-> "CHAR", pos |-> s.cursor + offset,
                  len |-> bl.len, abort |-> FALSE]
    IN  looked(IF s.cursor + offset < Len(s.utf8.data)
               THEN IF s.utf8.data[s.cursor + offset + 1] < 128
                    THEN [err |-> "OK", len |-> 1]
                    ELSE parserutils_charset_utf8_char_byte_length(
                             s.utf8.data[s.cursor + offset + 1])
               ELSE [err |-> "OK", len |-> env.uninit])

\* utf8->length - cursor is computed in size_t: with cursor > length it wraps
\* to a value no bytes of the model exceeds
parserutils_inputstream_advance(s, bytes) ==
    IF Len(s.utf8.data) >= s.cursor /\ bytes > Len(s.utf8.data) - s.cursor
    THEN [s |-> s, abort |-> TRUE]
    ELSE IF s.cursor = Len(s.utf8.data) THEN [s |-> s, abort |-> FALSE]
    ELSE [s |-> [s EXCEPT !.cursor = s.cursor + bytes], abort |-> FALSE]

-----------------------------------------------------------------------------
(* Callers.  Every action below is one call on the stream; result records  *)
(* what the call returned, the histories what went in and what came out.   *)

\* documents a caller feeds, in chunks of any sizes: ASCII longer than the
\* pivot, a two-byte character, a UTF-8 byte-order mark alone and before
\* text, ill-formed bytes
DocSet == { <<66, 67, 68, 65>>, <<65, 66, 195, 169>>, <<239, 187, 191>>,
            <<239, 187, 191, 65>>, <<169, 169, 169, 65>>,
            <<66, 67, 68, 65, 66>>, <<195, 169, 195, 169, 65>> }

Docs == { d \in DocSet : Len(d) <= MaxInput }

\* well-formed UTF-8 a caller inserts
InsertData == { <<104>>, <<195, 168>> }

\* what the detection function answers when the stream was given none
NoDetector == [err |-> "OK", mibenum |-> MIB_UTF8, encsrc |-> 0]

\* what the environment may answer: memory past the valid length of the utf8
\* buffer, a never-assigned local, the allocator, the detection function
Envs == [stale : {65, 169, 195}, uninit : {0, 2}, growok : BOOLEAN,
         det : {NoDetector}]

NoCall == [op |-> "create", err |-> "OK", kind |-> "NONE", pos |-> 0, len |-> 0,
           arg |-> 0, data |-> <<>>]

\* the record of a call: its outcome and its argument
Call(op, err, kind, pos, len, arg, data) ==
    [op |-> op, err |-> err, kind |-> kind, pos |-> pos, len |-> len,
     arg |-> arg, data |-> data]

DoAppend(d, allocok) ==
    \E r \in {parserutils_inputstream_append(stream, FALSE, d, allocok)} :
    /\ stream' = r.s
    /\ result' = Call("append", r.err, "NONE", 0, 0, Len(d), d)
    /\ appended' = IF r.err = "OK" THEN appended \o d ELSE appended
    /\ UNCHANGED <<doc, delivered, inserted, aborted, creation>>

DoAppendEof ==
    \E r \in {parserutils_inputstream_append(stream, TRUE, <<>>, TRUE)} :
    /\ stream' = r.s
    /\ result' = Call("eof", r.err, "NONE", 0, 0, 0, <<>>)
    /\ UNCHANGED <<doc, appended, delivered, inserted, aborted, creation>>

DoInsert(d, allocok) ==
    \E r \in {parserutils_inputstream_insert(stream, d, allocok)} :
    /\ stream' = r.s
    /\ result' = Call("insert", r.err, "NONE", 0, 0, Len(d), d)
    /\ inserted' = IF r.err = "OK" THEN inserted \o d ELSE inserted
    /\ UNCHANGED <<doc, appended, delivered, aborted, creation>>

DoPeek(offset, env) ==
    \E r \in {parserutils_inputstream_peek(stream, offset, env)} :
    /\ stream' = r.s
    /\ result' = Call("peek", "OK", r.kind, r.pos, r.len, offset, <<>>)
    /\ aborted' = r.abort
    /\ UNCHANGED <<doc, appended, delivered, inserted, creation>>

\* delivered grows by the valid bytes the cursor moved over
DoAdvance(bytes) ==
    \E r \in {parserutils_inputstream_advance(stream, bytes)} :
    /\ stream' = r.s
    /\ result' = Call("advance", "OK", "NONE", 0, 0, bytes, <<>>)
    /\ aborted' = r.abort
    /\ delivered' = delivered \o SubSeq(stream.utf8.data, stream.cursor + 1,
                                        Min(r.s.cursor, Len(stream.utf8.data)))
    /\ UNCHANGED <<doc, appended, inserted, creation>>

\* no reset has followed a switch of encoding
NoMark == [set |-> FALSE, held |-> FALSE, src |-> <<>>, out |-> 0]

FilterIdle ==
    /\ flt = parserutils_filter_create(MIB_UTF8)
    /\ fsrc = <<>> /\ fin = <<>> /\ fout = <<>> /\ fret = "NONE"
    /\ fcall = "none" /\ fmark = NoMark
    /\ fentry = [f |-> flt, data |-> <<>>, outlen |-> 0]

\* no call has been made on the codec driven directly
\* whole: every call so far was handed all of the input that was left
NoCodecCall == [op |-> "none", len |-> 0, room |-> 0, whole |-> TRUE]

\* the codec has not been reset.  fresh: a codec as create leaves it;
\* configured: one set to the error mode the codec had at the reset; asFresh,
\* asConfigured: every call since the reset answered as that codec did
NoTwin ==
    [set |-> FALSE, fresh |-> NullCodec, configured |-> NullCodec,
     asFresh |-> TRUE, asConfigured |-> TRUE]

CodecIdle ==
    /\ cdc = NullCodec /\ cdir = "decode"
    /\ csrc = <<>> /\ cin = <<>> /\ cout = <<>> /\ cret = "NONE"
    /\ ccall = NoCodecCall /\ twin = NoTwin

\* no lookup has been made in the registry
NoQuery == [op |-> "none", name |-> <<>>, mibenum |-> 0, ans |-> FALSE]

\* the registry as parserutils_initialise leaves it
AliasIdle ==
    /\ registry = LoadedRegistry /\ statics = NoStatics /\ query = NoQuery

\* strip_bom has not been called and no thread runs
NoBomStatics ==
    [k \in {"utf8", "utf16", "utf16be", "utf16le", "utf32", "utf32be",
             "utf32le"} |-> 0]

ThreadIdle == bomstatics = NoBomStatics /\ threads = <<>>

\* no block handed out, no filter (the pointer 0 is NULL), no call made
NoHeap == [blocks |-> <<>>, stale |-> FALSE]
NullFilter ==
    [ptr |-> 0, read_codec |-> 0, write_codec |-> 0, encoding |-> 0,
     leftover |-> FALSE]
NoMemCall == [op |-> "none", ret |-> "NONE", failed |-> FALSE]
MemIdle ==
    heap = NoHeap /\ hfilter = NullFilter /\ hcall = NoMemCall

\* a NULL rbnode pointer; an empty tree, no call made on it
NullNode == [nil |-> TRUE]
NoTreeCall == [op |-> "none", ret |-> "NONE"]
TreeIdle == rbtree = NullNode /\ tcall = NoTreeCall /\ tmap = <<>>

\* no hash table
HashIdle == htab = <<>> /\ hashcall = <<>> /\ interned = <<>>
UtilIdle == TreeIdle /\ HashIdle

\* a stream created for "UTF-8" or with no encoding, and no detection function
StreamInit ==
    /\ \E enc \in {0, MIB_UTF8} :
           /\ stream = parserutils_inputstream_create(enc # 0, enc, 1, FALSE, 0)
           /\ creation = [named |-> enc # 0, enc |-> enc, encsrc |-> 1]
    /\ result = NoCall
    /\ doc \in Docs
    /\ appended = <<>> /\ delivered = <<>> /\ inserted = <<>>
    /\ aborted = FALSE

Init == StreamInit /\ FilterIdle /\ CodecIdle /\ AliasIdle /\ ThreadIdle
    /\ MemIdle /\ UtilIdle

-----------------------------------------------------------------------------
(* Spec: a caller that makes any call at any time *)

StreamAppend ==
    /\ ~aborted
    /\ \E n \in 1..(Len(doc) - Len(appended)) : \E allocok \in BOOLEAN :
           DoAppend(SubSeq(doc, Len(appended) + 1, Len(appended) + n), allocok)
    /\ UNCHANGED nonStreamVars

StreamAppendEof ==
    /\ ~aborted /\ ~stream.had_eof
    /\ DoAppendEof
    /\ UNCHANGED nonStreamVars

StreamInsert ==
    /\ ~aborted
    /\ \E d \in InsertData : \E allocok \in BOOLEAN :
           Len(inserted) + Len(d) <= MaxInsert /\ DoInsert(d, allocok)
    /\ UNCHANGED nonStreamVars

StreamPeek ==
    /\ ~aborted
    /\ \E offset \in 0..MaxOffset : \E env \in Envs : DoPeek(offset, env)
    /\ UNCHANGED nonStreamVars

StreamAdvance ==
    /\ ~aborted
    /\ \E bytes \in 0..MaxAdvance :
           /\ stream.cursor <= Len(stream.utf8.data)
              \/ stream.cursor + bytes <= MaxCursor
           /\ DoAdvance(bytes)
    /\ UNCHANGED nonStreamVars

Next == StreamAppend \/ StreamAppendEof \/ StreamInsert \/ StreamPeek \/ StreamAdvance

Spec == Init /\ [][Next]_vars

-----------------------------------------------------------------------------
(* SpecConsumer: the consumer of test/inputstream.c.  It appends a chunk,  *)
(* peeks at offset 0 and advances by the length peek gave until peek says  *)
(* OOD, appends the next chunk, and after the last chunk flags the end of  *)
(* the input and goes on until peek says EOF.                              *)

Drained == result.op = "peek" /\ result.kind = "OOD"

ConsumerDone == result.op = "peek" /\ result.kind = "EOF"

ConsumerAppend ==
    /\ ~aborted /\ ~stream.had_eof
    /\ result.op = "create" \/ Drained
    /\ \E n \in 1..(Len(doc) - Len(appended)) :
           DoAppend(SubSeq(doc, Len(appended) + 1, Len(appended) + n), TRUE)
    /\ UNCHANGED nonStreamVars

ConsumerAppendEof ==
    /\ ~aborted /\ ~stream.had_eof
    /\ Drained /\ appended = doc
    /\ DoAppendEof
    /\ UNCHANGED nonStreamVars

ConsumerPeek ==
    /\ ~aborted
    /\ result.op \in {"append", "eof", "advance"} \/ (Drained /\ stream.had_eof)
    /\ \E env \in Envs : DoPeek(0, env)
    /\ UNCHANGED nonStreamVars

ConsumerAdvance ==
    /\ ~aborted
    /\ result.op = "peek" /\ result.kind = "CHAR"
    /\ DoAdvance(result.len)
    /\ UNCHANGED nonStreamVars

NextConsumer ==
    ConsumerAppend \/ ConsumerAppendEof \/ ConsumerPeek \/ ConsumerAdvance

SpecConsumer == Init /\ [][NextConsumer]_vars

-----------------------------------------------------------------------------
(* SpecDrain: the same consumer, except that the end of the input may be   *)
(* flagged as soon as the last chunk is appended, whatever was read so far *)

DrainAppendEof ==
    /\ ~aborted /\ ~stream.had_eof
    /\ appended = doc
    /\ result.op \in {"append", "advance"} \/ Drained
    /\ DoAppendEof
    /\ UNCHANGED nonStreamVars

NextDrain ==
    ConsumerAppend \/ DrainAppendEof \/ ConsumerPeek \/ ConsumerAdvance

SpecDrain == Init /\ [][NextDrain]_vars

-----------------------------------------------------------------------------
(* SpecInsert: a reader that appends chunks, reads character by character  *)
(* with peek(0) and advance(length), and inserts at any moment, as a       *)
(* parser does for script-written text.                                    *)

ReaderAppend ==
    /\ ~aborted
    /\ \E n \in 1..(Len(doc) - Len(appended)) :
           DoAppend(SubSeq(doc, Len(appended) + 1, Len(appended) + n), TRUE)
    /\ UNCHANGED nonStreamVars

ReaderInsert ==
    /\ ~aborted
    /\ \E d \in InsertData : \E allocok \in BOOLEAN :
           Len(inserted) + Len(d) <= MaxInsert /\ DoInsert(d, allocok)
    /\ UNCHANGED nonStreamVars

ReaderPeek ==
    /\ ~aborted
    /\ \E env \in Envs : DoPeek(0, env)
    /\ UNCHANGED nonStreamVars

ReaderAdvance ==
    /\ ~aborted
    /\ result.op = "peek" /\ result.kind = "CHAR"
    /\ DoAdvance(result.len)
    /\ UNCHANGED nonStreamVars

NextInsert == ReaderAppend \/ ReaderInsert \/ ReaderPeek \/ ReaderAdvance

SpecInsert == Init /\ [][NextInsert]_vars

-----------------------------------------------------------------------------
(* Properties of the stream under any caller (Spec)                        *)

BomUtf8 == <<239, 187, 191>>

\* the bytes of the utf8 buffer not yet advanced over
Unread(s) == Drop(s.utf8.data, s.cursor)

\* p occurs in s as a run of consecutive elements
Contains(s, p) ==
    \E i \in 0..(Len(s) - Len(p)) : SubSeq(s, i + 1, i + Len(p)) = p

\* C2: after every append, insert, peek and advance, whatever it returned,
\* the cursor is at most the length of the utf8 buffer.
C2_CursorWithinBuffer == stream.cursor <= Len(stream.utf8.data)

\* C3: whenever peek(offset) returns a character rather than EOF or OOD, the
\* length it gives is at least 1 and the character lies inside the valid
\* part of the utf8 buffer: cursor + offset + length <= utf8.length.
C3_PeekedCharInsideBuffer ==
    (result.op = "peek" /\ result.kind = "CHAR") =>
        /\ result.len >= 1
        /\ result.pos + result.len <= Len(stream.utf8.data)

C4_Step ==
    result'.op = "peek" =>
        /\ (stream.cursor + result'.arg >= Len(stream.utf8.data)
              /\ Len(stream.raw.data) = 0) =>
               (result'.kind = EofOrOod(stream) /\ stream' = stream)
        /\ result'.kind = "EOF" => stream.had_eof

\* C4: a peek(offset) with cursor + offset >= utf8.length while raw is empty
\* returns EOF if the end of the input was flagged and OOD if not, and
\* changes nothing; no peek returns EOF before append(NULL, 0).
C4_PeekPastEndIsSentinel == [][C4_Step]_vars

C6_Step ==
    result'.op = "advance" =>
        IF stream.cursor = Len(stream.utf8.data)
        THEN stream' = stream /\ ~aborted'
        ELSE IF stream.cursor > Len(stream.utf8.data) THEN TRUE
        ELSE IF result'.arg > Len(stream.utf8.data) - stream.cursor
        THEN aborted'
        ELSE ~aborted' /\ stream' = [stream EXCEPT !.cursor = @ + result'.arg]

\* C6: advance(bytes) with the cursor at the end of the utf8 buffer does
\* nothing, whatever bytes is, and does not abort; with the cursor before the
\* end it aborts exactly when bytes > utf8.length - cursor and otherwise
\* moves the cursor by bytes.
C6_AdvanceContract == [][C6_Step]_vars

C7_Step ==
    (result'.op = "insert" /\ result'.err = "OK") =>
        /\ stream'.cursor = stream.cursor
        /\ stream'.had_eof = stream.had_eof
        /\ stream'.raw = stream.raw
        /\ Unread(stream') = result'.data \o Unread(stream)
        /\ \A env \in Envs :
               \A p \in {parserutils_inputstream_peek(stream', 0, env)} :
               /\ p.kind = "CHAR" /\ p.pos = stream'.cursor
               /\ p.len = utf8_lead_length(result'.data[1])
               /\ p.s = stream'

\* C7: an insert that succeeds leaves cursor, had_eof and raw alone, puts the
\* inserted bytes in front of the bytes that were unread, and the next
\* peek(0) returns the first character of the inserted bytes.
C7_InsertAtCursor == [][C7_Step]_vars

\* an insert took place with read bytes before the cursor and unread bytes
\* after the inserted ones
C7_Witness ==
    /\ result.op = "insert" /\ result.err = "OK"
    /\ stream.cursor > 0
    /\ stream.cursor + Len(result.data) < Len(stream.utf8.data)

\* C9: when the document starts with the UTF-8 byte-order mark, however the
\* mark is split over appends and wherever the peeks fall, the mark is
\* stripped: its bytes are never delivered to the consumer.
C9_FragmentedBomStripped ==
    StartsWith(doc, BomUtf8) => ~Contains(delivered, BomUtf8)

-----------------------------------------------------------------------------
(* Properties of the chunked consumer (SpecConsumer, SpecDrain)            *)

RECURSIVE Utf8WellFormed(_)
Utf8WellFormed(d) ==
    \/ d = <<>>
    \/ \E r \in {parserutils_charset_utf8_to_ucs4(d)} :
           r.err = "OK" /\ Utf8WellFormed(Drop(d, r.len))

CodecEmpty(c) == c.inval_buf = <<>> /\ c.read_buf = <<>> /\ c.write_buf = <<>>

FilterEmpty(f) ==
    ~f.leftover /\ CodecEmpty(f.read_codec) /\ CodecEmpty(f.write_codec)

\* C1: for a well-formed UTF-8 document without a byte-order mark, appended
\* in chunks of any sizes, once the consumer is told EOF the bytes it was
\* delivered are the bytes appended, and the filter and its codecs hold
\* nothing back.
C1_ConsumerReceivesDocument ==
    (ConsumerDone /\ Utf8WellFormed(doc) /\ ~StartsWith(doc, BomUtf8)) =>
        /\ delivered = appended
        /\ FilterEmpty(stream.input)

\* C5: once the end of the input is flagged, the consumer's loop of peek(0)
\* and advance(length) comes to EOF; in particular no advance of the loop
\* aborts.
C5_DrainLoopReachesEof == stream.had_eof => ~aborted

-----------------------------------------------------------------------------
(* SpecBom: a stream with a detection function that may name any encoding. *)
(* The first append carries at least the longest byte-order mark; the      *)
(* consumer peeks at offset 0 and advances by any count.                   *)

BomDocs == { <<255, 254, 0, 0, 65>>, <<0, 0, 254, 255, 65>>, <<254, 255, 65>>,
             <<255, 254, 65>>, <<239, 187, 191, 65>>, <<65, 66>>,
             <<239, 187, 191, 65, 239, 187, 191, 65>> }

DetectedMibs == { 0, MIB_UTF8, MIB_UTF16, MIB_UTF16BE, MIB_UTF16LE,
                  MIB_UTF32, MIB_UTF32BE, MIB_UTF32LE }

BomEnvs == [stale : {65, 169}, uninit : {0}, growok : {TRUE},
            det : [err : {"OK"}, mibenum : DetectedMibs, encsrc : {1}]]

InitBom ==
    /\ stream = parserutils_inputstream_create(FALSE, 0, 0, TRUE, 0)
    /\ creation = [named |-> FALSE, enc |-> 0, encsrc |-> 0]
    /\ result = NoCall
    /\ doc \in BomDocs
    /\ appended = <<>> /\ delivered = <<>> /\ inserted = <<>>
    /\ aborted = FALSE
    /\ FilterIdle /\ CodecIdle /\ AliasIdle /\ ThreadIdle
    /\ MemIdle /\ UtilIdle

BomAppend ==
    /\ ~aborted
    /\ LET rem == Len(doc) - Len(appended) IN
       \E n \in {Min(UTF32_BOM_LEN, rem), rem} :
           /\ n >= 1
           /\ DoAppend(SubSeq(doc, Len(appended) + 1, Len(appended) + n), TRUE)
    /\ UNCHANGED nonStreamVars

BomAppendEof ==
    /\ ~aborted /\ ~stream.had_eof
    /\ appended = doc
    /\ DoAppendEof
    /\ UNCHANGED nonStreamVars

BomPeek ==
    /\ ~aborted
    /\ \E env \in BomEnvs : DoPeek(0, env)
    /\ UNCHANGED nonStreamVars

BomAdvance ==
    /\ ~aborted
    /\ \E bytes \in 1..MaxAdvance : DoAdvance(bytes)
    /\ UNCHANGED nonStreamVars

NextBom == BomAppend \/ BomAppendEof \/ BomPeek \/ BomAdvance

SpecBom == InitBom /\ [][NextBom]_vars

\* the byte-order mark of an encoding, <<>> for an encoding without one
ExpectedBom(mib) ==
    CASE mib = MIB_UTF8 -> <<239, 187, 191>>
      [] mib = MIB_UTF16BE -> <<254, 255>>
      [] mib = MIB_UTF16LE -> <<255, 254>>
      [] mib = MIB_UTF32BE -> <<0, 0, 254, 255>>
      [] mib = MIB_UTF32LE -> <<255, 254, 0, 0>>
      [] OTHER -> <<>>

ExpectedStrip(mib, d) ==
    IF ExpectedBom(mib) # <<>> /\ StartsWith(d, ExpectedBom(mib))
    THEN Drop(d, Len(ExpectedBom(mib)))
    ELSE d

\* what reading d as UTF-8 with U+FFFD for every ill-formed byte gives
RECURSIVE Utf8Loose(_)
Utf8Loose(d) ==
    IF d = <<>> THEN <<>>
    ELSE LET converted(r) ==
                 IF r.err = "OK" THEN Take(d, r.len) \o Utf8Loose(Drop(d, r.len))
                 ELSE IF r.err = "NEEDDATA" THEN <<>>
                 ELSE <<239, 191, 189>> \o Utf8Loose(Tail(d))
         IN  converted(parserutils_charset_utf8_to_ucs4(d))

\* C8: once the first refill has run, what the stream has delivered and
\* holds unread is the conversion of the appended bytes less the byte-order
\* mark of the stream's encoding, if they begin with it, and of all the
\* appended bytes otherwise: the mark is removed exactly, never delivered,
\* chosen by the MIB alone and removed at most once.
C8_FirstRefillStripsBom ==
    stream.done_first_chunk =>
        IsPrefix(delivered \o Unread(stream),
                 Utf8Loose(ExpectedStrip(stream.mibenum, appended)))

\* under UTF-16LE a document beginning FF FE 00 00 lost FF FE only, and all
\* the rest was delivered
C8_Witness ==
    /\ stream.mibenum = MIB_UTF16LE
    /\ appended = <<255, 254, 0, 0, 65>>
    /\ delivered = <<0, 0, 65>>

-----------------------------------------------------------------------------
(* SpecFilter: a filter driven directly.  The caller hands process_chunk   *)
(* the input not yet consumed and a fresh output buffer of any size, again *)
(* and again while it answers NOMEM.                                       *)

FilterBytes == {65, 195, 169}

FilterInputs == UNION { [1..n -> FilterBytes] : n \in 0..MaxInput }

StreamIdle ==
    /\ stream = parserutils_inputstream_create(FALSE, 0, 0, FALSE, 0)
    /\ creation = [named |-> FALSE, enc |-> 0, encsrc |-> 0]
    /\ result = NoCall
    /\ doc = <<>> /\ appended = <<>> /\ delivered = <<>> /\ inserted = <<>>
    /\ aborted = FALSE

InitFilter ==
    /\ StreamIdle /\ CodecIdle /\ AliasIdle /\ ThreadIdle
    /\ MemIdle /\ UtilIdle
    /\ flt = parserutils_filter_create(MIB_UTF8)
    /\ fsrc \in FilterInputs
    /\ fin = fsrc /\ fout = <<>> /\ fret = "NONE"
    /\ fcall = "none" /\ fmark = NoMark
    /\ fentry = [f |-> flt, data |-> <<>>, outlen |-> 0]

FilterProcessChunk ==
    /\ fret \in {"NONE", "NOMEM"}
    /\ \E outlen \in 0..MaxOut :
           \E r \in {parserutils_filter_process_chunk(flt, fin, outlen)} :
           /\ flt' = r.f
           /\ fin' = r.data
           /\ fout' = fout \o r.out
           /\ fret' = r.err
           /\ fentry' = [f |-> flt, data |-> fin, outlen |-> outlen]
    /\ fcall' = "process_chunk"
    /\ UNCHANGED <<fsrc, fmark>>
    /\ UNCHANGED nonFilterVars

NextFilter == FilterProcessChunk

SpecFilter == InitFilter /\ [][NextFilter]_vars

\* the output of one call given all the input and room for all the output
OneShot(src) ==
    parserutils_filter_process_chunk(parserutils_filter_create(MIB_UTF8),
                                     src, 3 * Len(src)).out

\* C10: calling process_chunk again with the remaining input and a fresh
\* output buffer each time it answers NOMEM gives, buffers concatenated,
\* the output of a single call with a buffer that is large enough.
C10_ChunkedEqualsOneShot ==
    /\ IsPrefix(fout, OneShot(fsrc))
    /\ fret \notin {"NONE", "NOMEM"} => fout = OneShot(fsrc)

\* a run that finished with more output than any one buffer held
C10_Witness == fret = "OK" /\ Len(fout) > MaxOut

-----------------------------------------------------------------------------
(* A filter whose caller also switches the encoding and resets it.          *)

\* the encodings a caller asks for: an unknown name, UTF-8, ISO-8859-1
SwitchMibs == {0, MIB_UTF8, MIB_LATIN1}

\* something derived from consumed input is retained in the filter
FilterHolds(f) ==
    \/ f.leftover \/ f.pivot_left # <<>>
    \/ f.read_codec.inval_buf # <<>> \/ f.read_codec.read_buf # <<>>
    \/ f.write_codec.read_buf # <<>> \/ f.write_codec.write_buf # <<>>

SwitchProcessChunk ==
    /\ \E outlen \in 0..MaxOut :
           \E r \in {parserutils_filter_process_chunk(flt, fin, outlen)} :
           /\ flt' = r.f
           /\ fin' = r.data
           /\ fout' = fout \o r.out
           /\ fret' = r.err
           /\ fentry' = [f |-> flt, data |-> fin, outlen |-> outlen]
    /\ fcall' = "process_chunk"
    /\ UNCHANGED <<fsrc, fmark>>
    /\ UNCHANGED nonFilterVars

\* fcall records "switch" for a call that changed the encoding
SwitchSetopt ==
    /\ \E mib \in SwitchMibs, created \in BOOLEAN :
           \E r \in {parserutils_filter_setopt(flt, mib, created)} :
           /\ flt' = r.f
           /\ fret' = r.err
           /\ fcall' = IF r.err = "OK" /\ mib # flt.encoding
                       THEN "switch" ELSE "setopt"
           /\ fentry' = [f |-> r.f, data |-> <<>>, outlen |-> 0]
    /\ fmark' = NoMark
    /\ UNCHANGED <<fsrc, fin, fout>>
    /\ UNCHANGED nonFilterVars

SwitchReset ==
    /\ \E r \in {parserutils_filter_reset(flt)} :
           /\ flt' = r.f
           /\ fret' = r.err
           /\ fmark' = IF fcall = "switch" /\ r.err = "OK"
                       THEN [set |-> TRUE, held |-> FilterHolds(flt),
                             src |-> fin, out |-> Len(fout)]
                       ELSE NoMark
           /\ fentry' = [f |-> r.f, data |-> <<>>, outlen |-> 0]
    /\ fcall' = "reset"
    /\ UNCHANGED <<fsrc, fin, fout>>
    /\ UNCHANGED nonFilterVars

NextSwitch == SwitchProcessChunk \/ SwitchSetopt \/ SwitchReset

SpecSwitch == InitFilter /\ [][NextSwitch]_vars

\* what process_chunk answers: the input left, the output and the result
Converts(f, data, outlen) ==
    LET answer(r) == [data |-> r.data, out |-> r.out, err |-> r.err]
    IN  answer(parserutils_filter_process_chunk(f, data, outlen))

C11_Step ==
    (fcall' = "setopt" /\ fret' = "NOMEM")
        => /\ flt'.read_codec = flt.read_codec
           /\ flt'.encoding = flt.encoding
           /\ \A outlen \in 0..MaxOut :
                  Converts(flt', fin, outlen) = Converts(flt, fin, outlen)

\* C11: a setopt that fails with NOMEM leaves the filter with its previous
\* read codec and encoding, and process_chunk then converts the input as it
\* would have before the call.
C11_FailedSetoptKeepsFilter == [][C11_Step]_vars

\* what a filter created for the encoding mib, given nothing before,
\* writes for src when the output buffer is large enough
FreshOutput(mib, src) ==
    parserutils_filter_process_chunk(
        filter_set_encoding(parserutils_filter_create(MIB_UTF8), mib, TRUE).f,
        src, 3 * Len(src)).out

\* C12: once a setopt to a different encoding has been followed by reset,
\* the output of the later process_chunk calls is what the input not yet
\* consumed at the reset converts to in the new encoding: nothing retained
\* from the input consumed before the switch appears in it.
C12_NothingSurfacesAfterSwitch ==
    fmark.set =>
        IsPrefix(Drop(fout, fmark.out), FreshOutput(flt.encoding, fmark.src))

\* the filter held something at the reset and has written output since
C12_Witness == fmark.set /\ fmark.held /\ Len(fout) > fmark.out

\* the last call was a process_chunk entered with leftover pivot data whose
\* re-encoding into the output buffer did not complete
LeftoverNotFlushed ==
    /\ fcall = "process_chunk"
    /\ fentry.f.leftover
    /\ parserutils_charset_codec_encode(fentry.f.write_codec,
                                        fentry.f.pivot_left,
                                        fentry.outlen).err = "NOMEM"

\* C13: a process_chunk entered with leftover pivot data that does not fit
\* the output returns NOMEM with the input pointer and length as they were
\* and the read codec untouched.
C13_LeftoverNoMemLeavesInput ==
    LeftoverNotFlushed =>
        /\ fret = "NOMEM"
        /\ fin = fentry.data
        /\ flt.read_codec = fentry.f.read_codec

\* such a call was made with input waiting
C13_Witness == LeftoverNotFlushed /\ fentry.data # <<>>

-----------------------------------------------------------------------------
(* The iconv codec driven directly: a caller hands it an input piece by    *)
(* piece, each call with an output buffer of its own size.  The charsets   *)
(* are ISO-8859-1 and, as the multi-byte charset, UTF-8 read and written   *)
(* through iconv.                                                          *)

\* the characters handed to encode: A, e-acute, the euro sign
CodecChars == {65, 233, 8364}

\* longest input handed to that codec, in bytes (decode) or characters
MaxSource == 3

CodecInputs ==
    [dir : {"decode"},
     src : UNION { [1..n -> FilterBytes] : n \in 0..MaxSource }]
    \cup [dir : {"encode"},
          src : UNION { [1..n -> CodecChars] : n \in 0..MaxSource }]

InitCodec ==
    /\ StreamIdle /\ FilterIdle /\ AliasIdle /\ ThreadIdle
    /\ MemIdle /\ UtilIdle
    /\ \E i \in CodecInputs : cdir = i.dir /\ csrc = i.src
    /\ \E mib \in {MIB_LATIN1, MIB_UTF8}, cd \in {"EILSEQ", "NONE"} :
           \* decode does not depend on cd
           /\ cdir = "decode" => cd = "EILSEQ"
           /\ cdc = iconv_codec_create(mib, cd)
    /\ cin = csrc /\ cout = <<>> /\ cret = "NONE"
    /\ ccall = NoCodecCall /\ twin = NoTwin

\* the caller configures the codec before converting anything
CodecSetopt ==
    /\ ccall.op = "none"
    /\ \E mode \in {"LOOSE", "STRICT"} :
           \E r \in {parserutils_charset_codec_setopt(cdc, mode)} :
               /\ cdc' = r.c
               /\ cret' = r.err
               /\ ccall' = [op |-> "setopt", len |-> 0, room |-> 0, whole |-> TRUE]
    /\ UNCHANGED <<cdir, csrc, cin, cout, twin>>
    /\ UNCHANGED nonCodecVars

\* decode the first len bytes of the input into room for room characters
CodecDecode ==
    /\ cdir = "decode" /\ cret # "ABORT"
    /\ \E len \in 0..Len(cin), room \in 0..MaxOut :
           \E r \in {parserutils_charset_codec_decode(cdc, Take(cin, len), room)} :
               /\ cdc' = r.c
               /\ cin' = r.rest \o Drop(cin, len)
               /\ cout' = cout \o r.out
               /\ cret' = r.err
               /\ ccall' = [op |-> "decode", len |-> len, room |-> room,
                            whole |-> ccall.whole /\ len = Len(cin)]
    /\ UNCHANGED <<cdir, csrc, twin>>
    /\ UNCHANGED nonCodecVars

\* encode the first len characters of the input into room for room bytes
CodecEncode ==
    /\ cdir = "encode" /\ cret # "ABORT"
    /\ \E len \in 0..Len(cin), room \in 0..MaxOut :
           \E r \in {parserutils_charset_codec_encode(cdc, Take(cin, len), room)} :
               /\ cdc' = r.c
               /\ cin' = r.rest \o Drop(cin, len)
               /\ cout' = cout \o r.out
               /\ cret' = r.err
               /\ ccall' = [op |-> "encode", len |-> len, room |-> room,
                            whole |-> ccall.whole /\ len = Len(cin)]
    /\ UNCHANGED <<cdir, csrc, twin>>
    /\ UNCHANGED nonCodecVars

NextCodec == CodecSetopt \/ CodecDecode \/ CodecEncode

SpecCodec == InitCodec /\ [][NextCodec]_vars

\* one call in the direction dir
Convert(c, dir, src, room) ==
    IF dir = "decode" THEN parserutils_charset_codec_decode(c, src, room)
    ELSE parserutils_charset_codec_encode(c, src, room)

\* room enough for the output of any input, with what a codec retains
AmpleRoom == 3 * (MaxSource + 1)

\* the codec as created, in the error mode of c
FreshCodec(c) ==
    [iconv_codec_create(c.mibenum, c.cd) EXCEPT !.errormode = c.errormode]

\* the input holds no ill-formed sequence: decoding it replaced nothing
NothingReplaced(out) == \A i \in 1..Len(out) : out[i] # 65533

\* C14: for the iconv codec, in both directions, whatever the sizes of the
\* output buffers, as long as the calls return OK or NOMEM the output so far
\* followed by what one more call with room for everything writes is the
\* output of converting the whole input in one call: every character is
\* output exactly once, in input order, the retained output before anything
\* new.  The input is handed over whole at each call, or in any pieces when
\* it is well formed.
C14_ExactlyOnce ==
    LET same(one, rest) ==
            /\ rest.err = "OK"
            /\ cout \o rest.out = one.out
            /\ rest.c = one.c
    IN  (/\ cdc.kind = "iconv"
         /\ cret \in {"NONE", "OK", "NOMEM"})
        => \A one \in {Convert(FreshCodec(cdc), cdir, csrc, AmpleRoom)} :
               (one.err = "OK" /\ (ccall.whole \/ NothingReplaced(one.out)))
               => same(one, Convert(cdc, cdir, cin, AmpleRoom))

\* a call that followed others returned NOMEM with a character retained and
\* input still to come
C14_Witness ==
    /\ cdc.kind = "iconv" /\ cret = "NOMEM"
    /\ cdc.read_buf # <<>> \/ cdc.write_buf # <<>>
    /\ cout # <<>> /\ cin # <<>>

\* the codec retains nothing
NothingRetained(c) ==
    c.inval_buf = <<>> /\ c.read_buf = <<>> /\ c.write_buf = <<>>

\* the last step was a call of decode or encode that returned INVALID
ReturnedInvalid == ccall'.op \in {"decode", "encode"} /\ cret' = "INVALID"

C15_Step ==
    ReturnedInvalid
    => /\ cin' # <<>>
       /\ IF cdir = "decode"
          THEN iconv_to_ucs4(cdc.mibenum, cin').ret = "EILSEQ"
          ELSE ~iconv_from_ucs4(cdc.mibenum, Head(cin')).has
       /\ NothingRetained(cdc')

C15_AmendedStep ==
    LET \* used: the input the call consumed; kept: the part of it that was
        \* converted
        written(kept) ==
            cout' = cout \o Convert(cdc, cdir, Take(cin, kept), ccall'.room).out
        \* the bytes retained by an earlier call and those handed to this
        \* one make an ill-formed sequence
        straddles ==
            /\ cdc.inval_buf # <<>>
            /\ iconv_to_ucs4(cdc.mibenum,
                             cdc.inval_buf \o Take(cin, ccall'.len)).ret
                   = "EILSEQ"
        decoded(used) ==
            /\ IF straddles THEN used = 0
               ELSE iconv_to_ucs4(cdc.mibenum, cin').ret = "EILSEQ"
            /\ written(used)
        encoded(used) ==
            /\ used >= 1
            /\ ~iconv_from_ucs4(cdc.mibenum, cin[used]).has
            /\ written(used - 1)
        moved(used) == IF cdir = "decode" THEN decoded(used) ELSE encoded(used)
    IN  ReturnedInvalid
        => /\ NothingRetained(cdc')
           /\ moved(Len(cin) - Len(cin'))

-----------------------------------------------------------------------------
(* The alias registry driven directly: a table is loaded from a file,      *)
(* names and MIB enums are looked up in it, the table is destroyed and     *)
(* another one loaded.                                                     *)

\* longest name looked up, the names of the aliases test and of the files
\* below apart
MaxName == 2

\* the bytes of the names looked up: U u 8 -
NameBytes == {85, 117, 56, 45}

\* names the aliases test looks up: "u.t.f.8", "UTF8", "utf-8", "moose", and
\* "l1"
TestNames ==
    { <<117, 46, 116, 46, 102, 46, 56>>, <<85, 84, 70, 56>>,
      <<117, 116, 102, 45, 56>>, <<109, 111, 111, 115, 101>>, <<108, 49>> }

AliasNames ==
    UNION { [1..n -> NameBytes] : n \in 0..MaxName }
    \cup TestNames
    \cup { <<120>>, <<45, 120>>, <<88, 56>>, <<120, 56>>, <<117, 45, 56>> }

\* the MIB enums looked up: those of the records below, some of AliasFile,
\* one that no record has, and the not-found value
AliasMibs == {0, 3, 4, 7, MIB_UTF8, 1000, MIB_UTF16}

\* records of small alias files: "U8 106 8u", "x 4 X8 u", "u-8 7", "8 106 -x".
\* The third names the first again; the fourth shares its MIB enum and has
\* the name of the second as an alias.
AliasPool ==
    { [name |-> <<85, 56>>, mib_enum |-> MIB_UTF8, aliases |-> << <<56, 117>> >>],
      [name |-> <<120>>, mib_enum |-> MIB_LATIN1,
       aliases |-> << <<88, 56>>, <<117>> >>],
      [name |-> <<117, 45, 56>>, mib_enum |-> 7, aliases |-> <<>>],
      [name |-> <<56>>, mib_enum |-> MIB_UTF8, aliases |-> << <<45, 120>> >>] }

AliasFiles ==
    {AliasFile, <<>>}
    \cup { <<r>> : r \in AliasPool }
    \cup { f \in { <<r1, r2>> : r1 \in AliasPool, r2 \in AliasPool } :
               f[1] # f[2] }

\* before parserutils_initialise
InitAlias ==
    /\ StreamIdle /\ FilterIdle /\ CodecIdle /\ ThreadIdle
    /\ MemIdle /\ UtilIdle
    /\ registry = EmptyRegistry /\ statics = NoStatics /\ query = NoQuery

\* parserutils_initialise: load a file into the empty tables
AliasCreate ==
    /\ registry = EmptyRegistry
    /\ \E file \in AliasFiles :
           registry' = parserutils_charset_aliases_create(registry, file, 1)
    /\ query' = [op |-> "create", name |-> <<>>, mibenum |-> 0, ans |-> "OK"]
    /\ UNCHANGED statics
    /\ UNCHANGED nonAliasVars

\* parserutils_finalise
AliasDestroy ==
    /\ registry # EmptyRegistry
    /\ registry' = parserutils_charset_aliases_destroy(registry)
    /\ query' = [op |-> "destroy", name |-> <<>>, mibenum |-> 0, ans |-> "OK"]
    /\ UNCHANGED statics
    /\ UNCHANGED nonAliasVars

AliasCanonicalise ==
    /\ \E name \in AliasNames :
           query' = [op |-> "canonicalise", name |-> name, mibenum |-> 0,
                     ans |-> parserutils_charset_alias_canonicalise(registry,
                                                                    name)]
    /\ UNCHANGED <<registry, statics>>
    /\ UNCHANGED nonAliasVars

\* the MIB enum of a name, then the name of that MIB enum
AliasMibenum ==
    /\ \E name \in AliasNames :
           \E mib \in {parserutils_charset_mibenum_from_name(registry, name)} :
               query' = [op |-> "mibenum", name |-> name, mibenum |-> mib,
                         ans |-> parserutils_charset_mibenum_to_name(registry,
                                                                     mib)]
    /\ UNCHANGED <<registry, statics>>
    /\ UNCHANGED nonAliasVars

AliasToName ==
    /\ \E mib \in AliasMibs :
           query' = [op |-> "to_name", name |-> <<>>, mibenum |-> mib,
                     ans |-> parserutils_charset_mibenum_to_name(registry, mib)]
    /\ UNCHANGED <<registry, statics>>
    /\ UNCHANGED nonAliasVars

AliasIsUnicode ==
    /\ \E mib \in AliasMibs :
           \E r \in {parserutils_charset_mibenum_is_unicode(statics, registry,
                                                             mib)} :
               /\ statics' = r.statics
               /\ query' = [op |-> "is_unicode", name |-> <<>>,
                            mibenum |-> mib, ans |-> r.unicode]
    /\ UNCHANGED registry
    /\ UNCHANGED nonAliasVars

NextAlias ==
    \/ AliasCreate \/ AliasDestroy \/ AliasCanonicalise \/ AliasMibenum
    \/ AliasToName \/ AliasIsUnicode

SpecAlias == InitAlias /\ [][NextAlias]_vars

\* a name with whitespace and ASCII punctuation skipped and ASCII case folded
Fold(name) ==
    LET kept == SelectSeq(name, LAMBDA x : ~IS_PUNCT_OR_SPACE(x))
    IN  [i \in 1..Len(kept) |-> tolower(kept[i])]

RegisteredCanons(reg) ==
    UNION { { reg.canon_tab[i][k] : k \in 1..Len(reg.canon_tab[i]) } :
            i \in DOMAIN reg.canon_tab }

RegisteredAliases(reg) ==
    UNION { { reg.alias_tab[i][k] : k \in 1..Len(reg.alias_tab[i]) } :
            i \in DOMAIN reg.alias_tab }

\* the canonical name of c and its aliases
NamesOf(reg, c) ==
    {c.name} \cup { a.name : a \in { b \in RegisteredAliases(reg) : b.canon = c } }

\* the canonicals one of whose names is name, folded
Owners(reg, name) ==
    { c \in RegisteredCanons(reg) :
        \E n \in NamesOf(reg, c) : Fold(n) = Fold(name) }

\* the table keeps the data model: every name, folded, belongs to one
\* canonical, and every canonical has a MIB enum of its own, not 0
WellFormedTable(reg) ==
    \A c1 \in RegisteredCanons(reg) :
        /\ c1.mib_enum # 0
        /\ \A c2 \in RegisteredCanons(reg) \ {c1} :
               /\ c1.mib_enum # c2.mib_enum
               /\ \A n \in NamesOf(reg, c1) : c2 \notin Owners(reg, n)

\* C16: canonicalise(q) returns a canonical c exactly when q, with whitespace and ASCII punctuation skipped
\* and ASCII case folded, equals c's name or one of its aliases treated the
\* same way, and none when no registered name matches; with the table of
\* the library "u.t.f.8", "UTF8" and "utf-8" give UTF-8's canonical and
\* "moose" none.
C16_CanonicaliseByFoldedName ==
    LET answered(owners) ==
            IF owners = {} THEN ~query.ans.found
            ELSE query.ans.found /\ query.ans.canon \in owners
    IN  query.op = "canonicalise"
        => /\ answered(Owners(registry, query.name))
           /\ (registry = LoadedRegistry /\ query.name \in TestNames)
              => IF Fold(query.name) = <<117, 116, 102, 56>>
                 THEN query.ans.found /\ query.ans.canon.mib_enum = MIB_UTF8
                 ELSE query.name = <<109, 111, 111, 115, 101>>
                      => ~query.ans.found

\* "u.t.f.8" looked up in the table of the library: an alias found through
\* punctuation and case
C16_Witness ==
    /\ query.op = "canonicalise" /\ registry = LoadedRegistry
    /\ query.name = <<117, 46, 116, 46, 102, 46, 56>>
    /\ query.ans.found /\ query.ans.canon.name # query.name

\* names compared with the names looked up
ShortNames == UNION { [1..n -> NameBytes] : n \in 0..MaxName }

\* a registered name and a name looked up, to be compared
InitHash ==
    /\ StreamIdle /\ FilterIdle /\ CodecIdle /\ ThreadIdle
    /\ MemIdle /\ UtilIdle
    /\ registry = EmptyRegistry /\ statics = NoStatics
    /\ \E s1 \in AliasNames, s2 \in ShortNames :
           query = [op |-> "names", name |-> s1, mibenum |-> 0,
                    ans |-> [other |-> s2]]

\* the two names compared, and the bucket of each
AliasCompare ==
    /\ query.op = "names"
    /\ \E s1 \in {query.name}, s2 \in {query.ans.other} :
           query' = [op |-> "compare", name |-> s1, mibenum |-> 0,
                     ans |-> [other |-> s2, cmp |-> aliascmp(s1, s2),
                              h1 |-> parserutils_charset_hash_val(s1),
                              h2 |-> parserutils_charset_hash_val(s2)]]
    /\ UNCHANGED <<registry, statics>>
    /\ UNCHANGED nonAliasVars

NextHash == AliasCompare

SpecHash == InitHash /\ [][NextHash]_vars

\* C17: two names that aliascmp finds equal have the same bucket index, and
\* every bucket index is below the table size.
C17_EqualNamesHashEqual ==
    query.op = "compare"
    => /\ query.ans.cmp = 0 => query.ans.h1 = query.ans.h2
       /\ query.ans.h1 \in 0..(HASH_SIZE - 1)
       /\ query.ans.h2 \in 0..(HASH_SIZE - 1)

\* two names that differ in case or punctuation and compare equal
C17_Witness ==
    /\ query.op = "compare" /\ query.ans.cmp = 0
    /\ query.name # query.ans.other
    /\ Len(query.name) = Len(query.ans.other)

UnicodeMibs(reg) ==
    { c.mib_enum : c \in UNION { Owners(reg, UnicodeNames[k]) :
                                  k \in DOMAIN UnicodeNames } }

\* C19: for every MIB enum and every loaded table, is_unicode is true exactly
\* when the MIB enum is that of one of UCS-4, UCS-2, UTF-8, UTF-16, UTF-16BE,
\* UTF-16LE, UTF-32, UTF-32BE, UTF-32LE in the table; it is false for 0.
C19_IsUnicodeExact ==
    query.op = "is_unicode"
    => query.ans = (query.mibenum # 0 /\ query.mibenum \in UnicodeMibs(registry))

-----------------------------------------------------------------------------
(* SpecCharset: streams created in every way, with no encoding name, with  *)
(* a registered one or with one the registry lacks, whose charset is read  *)
(* before and after the first chunk is processed.                          *)

\* the arguments of parserutils_inputstream_create: enc is the MIB enum of
\* the name given, 0 for a name the registry lacks
Creations ==
    [named : {FALSE}, enc : {0}, encsrc : {0, 2}]
    \cup [named : {TRUE}, enc : {0, MIB_UTF8, MIB_LATIN1}, encsrc : {0, 1, 2}]

InitCharset ==
    /\ creation \in Creations
    /\ \E uninit \in {0, 1, 3} :
           stream = parserutils_inputstream_create(creation.named, creation.enc,
                                                   creation.encsrc, FALSE,
                                                   uninit)
    /\ result = NoCall
    /\ doc \in { <<65, 66>>, <<65, 195, 169>> }
    /\ appended = <<>> /\ delivered = <<>> /\ inserted = <<>>
    /\ aborted = FALSE
    /\ FilterIdle /\ CodecIdle /\ AliasIdle /\ ThreadIdle
    /\ MemIdle /\ UtilIdle

StreamReadCharset ==
    /\ ~aborted
    /\ \E r \in {parserutils_inputstream_read_charset(stream)} :
           result' = Call("read_charset", IF r.found THEN "OK" ELSE "NULL",
                          "NONE", 0, 0, r.source, r.name)
    /\ UNCHANGED <<stream, doc, appended, delivered, inserted, aborted,
                   creation>>
    /\ UNCHANGED nonStreamVars

NextCharset ==
    StreamAppend \/ StreamAppendEof \/ StreamPeek \/ StreamReadCharset

SpecCharset == InitCharset /\ [][NextCharset]_vars

\* read_charset was called and no chunk has been processed yet
ReadBeforeFirstChunk ==
    result.op = "read_charset" /\ ~stream.done_first_chunk

-----------------------------------------------------------------------------
(* The priority class of the encoding over the life of a stream *)

\* C21: encsrc never decreases: after every operation on a stream (append,
\* insert, peek with or without a refill, advance) encsrc is greater than or
\* equal to what it was before the operation.
C21_EncsrcNeverDecreases == [][stream'.encsrc >= stream.encsrc]_vars

-----------------------------------------------------------------------------
(* SpecTail: the chunked consumer fed a document whose last character is   *)
(* cut short.  The end of the input may be flagged as soon as the last     *)
(* chunk is appended.                                                      *)

\* text followed by the first byte of a two-byte character or the first two
\* bytes of a three-byte one
TailDocs == { <<65, 195>>, <<195>>, <<65, 66, 226, 130>>, <<226, 130>>,
              <<195, 169, 226>> }

InitTail ==
    /\ \E enc \in {0, MIB_UTF8} :
           /\ stream = parserutils_inputstream_create(enc # 0, enc, 1, FALSE, 0)
           /\ creation = [named |-> enc # 0, enc |-> enc, encsrc |-> 1]
    /\ result = NoCall
    /\ doc \in TailDocs
    /\ appended = <<>> /\ delivered = <<>> /\ inserted = <<>>
    /\ aborted = FALSE
    /\ FilterIdle /\ CodecIdle /\ AliasIdle /\ ThreadIdle
    /\ MemIdle /\ UtilIdle

\* the calls are those of the consumer of SpecDrain
SpecTail == InitTail /\ [][NextDrain]_vars

\* the complete characters of d, without the bytes of a last character cut
\* short
RECURSIVE CompletePart(_)
CompletePart(d) ==
    IF d = <<>> THEN <<>>
    ELSE LET read(r) ==
                 IF r.err = "NEEDDATA" THEN <<>>
                 ELSE Take(d, Max(r.len, 1))
                      \o CompletePart(Drop(d, Max(r.len, 1)))
         IN  read(parserutils_charset_utf8_to_ucs4(d))

\* C22: when the appended input ends with an incomplete UTF-8 sequence and
\* the end of the input is flagged, a peek is answered with a character or
\* with EOF, never with out-of-data, and by the time it is answered with EOF
\* the consumer was delivered the complete characters followed by U+FFFD for
\* the incomplete tail.
C22_IncompleteTailSubstituted ==
    (stream.had_eof /\ appended = doc /\ result.op = "peek" /\ ~aborted) =>
        /\ result.kind # "OOD"
        /\ result.kind = "EOF"
           => delivered = Utf8Loose(CompletePart(doc)) \o <<239, 191, 189>>

-----------------------------------------------------------------------------
(* Two peeks in a row *)

\* what a peek reports: the sentinel, or where the character lies, its length
\* and its bytes
Outcome(r) ==
    IF r.kind = "CHAR"
    THEN [kind |-> r.kind, pos |-> r.pos, len |-> r.len,
          bytes |-> SubSeq(r.s.utf8.data, r.pos + 1,
                           Min(r.pos + r.len, Len(r.s.utf8.data)))]
    ELSE [kind |-> r.kind, pos |-> 0, len |-> 0, bytes |-> <<>>]

\* C23: peek is idempotent: in every state a stream can be in, a second
\* peek(offset) made right after a first one, with memory and allocator as
\* they were, reports what the first reported (the same sentinel, or the same
\* character bytes and length) and changes nothing in the stream.
C23_PeekIdempotent ==
    LET again(first, offset, env) ==
            \A second \in {parserutils_inputstream_peek(first.s, offset, env)} :
                /\ Outcome(second) = Outcome(first)
                /\ second.s = first.s
    IN  ~aborted =>
            \A offset \in 0..MaxOffset : \A env \in Envs :
                \A first \in {parserutils_inputstream_peek(stream, offset, env)} :
                    ~first.abort => again(first, offset, env)

-----------------------------------------------------------------------------
(* Setting an encoding the filter cannot use *)

\* the step is a setopt naming a registered encoding other than the current
\* one for which no codec is made, as GBK when no codec handles it
UnusableSetopt(mib) ==
    \E r \in {parserutils_filter_setopt(flt, mib, FALSE)} :
        fcall' = "setopt" /\ flt' = r.f /\ fret' = r.err

\* C24: setopt(SET_ENCODING) naming an encoding the filter cannot use
\* returns BADENCODING, the first time and every time the call is repeated.
C24_UnusableIsBadEncoding ==
    [][\A mib \in SwitchMibs \ {0, flt.encoding} :
           UnusableSetopt(mib) => fret' = "BADENCODING"]_vars

-----------------------------------------------------------------------------
(* Setting an encoding whose name the registry lacks *)

\* the step is a setopt with a name that does not canonicalise (mib 0)
UnknownSetopt ==
    \E created \in BOOLEAN :
        \E r \in {parserutils_filter_setopt(flt, 0, created)} :
            fcall' = "setopt" /\ flt' = r.f /\ fret' = r.err

\* C25: setopt(SET_ENCODING, name) with a name that does not canonicalise
\* returns INVALID and leaves the filter as it was: its encoding, its read
\* and write codecs and what it holds left over.
C25_UnknownNameIsInvalid ==
    [][UnknownSetopt => (fret' = "INVALID" /\ flt' = flt)]_vars

\* such a call was made on a filter that held converted input left over and
\* read an encoding other than the one it was created with
C25_Witness ==
    /\ fcall = "setopt" /\ fret = "INVALID"
    /\ flt.leftover /\ flt.pivot_left # <<>>
    /\ flt.encoding = MIB_LATIN1

-----------------------------------------------------------------------------
(* SpecReset: an iconv codec that its caller configures, feeds in both     *)
(* directions and resets at any time.  From a reset on, two codecs created *)
(* anew for the same charset are given every call the codec is given: one  *)
(* left as created, one set to the codec's error mode.  What a call wrote  *)
(* is compared with what the two wrote and is not kept.                    *)

\* longest input fed to the codec for decoding, in bytes
MaxFed == 2

\* the output buffers handed over: no room at all, or room for a character
Rooms == {0, MaxOut}

\* the characters handed to encode in one call
EncodeInputs == UNION { [1..n -> CodecChars] : n \in 0..1 }

InitReset ==
    /\ StreamIdle /\ FilterIdle /\ AliasIdle /\ ThreadIdle
    /\ MemIdle /\ UtilIdle
    /\ cdir = "decode"
    /\ csrc \in UNION { [1..n -> FilterBytes] : n \in 0..MaxFed }
    /\ \E mib \in {MIB_LATIN1, MIB_UTF8}, cd \in {"EILSEQ", "NONE"} :
           cdc = iconv_codec_create(mib, cd)
    /\ cin = csrc /\ cout = <<>> /\ cret = "NONE"
    /\ ccall = NoCodecCall /\ twin = NoTwin

\* the twins after the call that answered r was made on them as well; one
\* that has answered otherwise is followed no further
Paired(t, dir, src, room, r) ==
    LET same(a) == a.err = r.err /\ a.out = r.out /\ a.rest = r.rest
        called(f, g) ==
            [t EXCEPT !.fresh = IF t.asFresh /\ same(f) THEN f.c ELSE t.fresh,
                      !.configured = IF t.asConfigured /\ same(g) THEN g.c
                                     ELSE t.configured,
                      !.asFresh = t.asFresh /\ same(f),
                      !.asConfigured = t.asConfigured /\ same(g)]
    IN  IF ~t.set THEN t
        ELSE called(Convert(t.fresh, dir, src, room),
                    Convert(t.configured, dir, src, room))

ResetSetopt ==
    /\ ~twin.set
    /\ \E mode \in {"LOOSE", "STRICT"} :
           \E r \in {parserutils_charset_codec_setopt(cdc, mode)} :
               /\ cdc' = r.c
               /\ cret' = r.err
               /\ ccall' = [op |-> "setopt", len |-> 0, room |-> 0, whole |-> TRUE]
    /\ UNCHANGED <<cdir, csrc, cin, cout, twin>>
    /\ UNCHANGED nonCodecVars

ResetDecode ==
    /\ cret # "ABORT"
    /\ \E len \in 0..Len(cin), room \in Rooms :
           \E r \in {parserutils_charset_codec_decode(cdc, Take(cin, len), room)} :
               /\ cdc' = r.c
               /\ cin' = r.rest \o Drop(cin, len)
               /\ cret' = r.err
               /\ ccall' = [op |-> "decode", len |-> 0, room |-> 0,
                            whole |-> TRUE]
               /\ twin' = Paired(twin, "decode", Take(cin, len), room, r)
    /\ UNCHANGED <<cdir, csrc, cout>>
    /\ UNCHANGED nonCodecVars

ResetEncode ==
    /\ cret # "ABORT"
    /\ \E cps \in EncodeInputs, room \in Rooms :
           \E r \in {parserutils_charset_codec_encode(cdc, cps, room)} :
               /\ cdc' = r.c
               /\ cret' = r.err
               /\ ccall' = [op |-> "encode", len |-> 0, room |-> 0,
                            whole |-> TRUE]
               /\ twin' = Paired(twin, "encode", cps, room, r)
    /\ UNCHANGED <<cdir, csrc, cin, cout>>
    /\ UNCHANGED nonCodecVars

\* held: the codec retained input or output when it was reset
ResetReset ==
    /\ cret # "ABORT"
    /\ \E r \in {parserutils_charset_codec_reset(cdc)} :
           /\ cdc' = r.c
           /\ cret' = r.err
    /\ ccall' = [op |-> "reset", len |-> 0, room |-> 0, whole |-> TRUE]
    /\ twin' = [set |-> TRUE, held |-> ~NothingRetained(cdc),
                fresh |-> iconv_codec_create(cdc.mibenum, cdc.cd),
                configured |->
                    parserutils_charset_codec_setopt(
                        iconv_codec_create(cdc.mibenum, cdc.cd),
                        cdc.errormode).c,
                asFresh |-> TRUE, asConfigured |-> TRUE]
    /\ UNCHANGED <<cdir, csrc, cin, cout>>
    /\ UNCHANGED nonCodecVars

NextReset == ResetSetopt \/ ResetDecode \/ ResetEncode \/ ResetReset

SpecReset == InitReset /\ [][NextReset]_vars

\* C26: after reset a codec answers every later sequence of encode and
\* decode calls (result, output written, input consumed) as a newly created
\* codec for the same charset given the same calls does, whatever it was fed
\* or configured with before the reset.
C26_ResetIsFresh == twin.set => twin.asFresh

\* C26, amended: after reset a codec answers every later sequence of encode
\* and decode calls as a newly created codec for the same charset does once
\* it is set to the error mode the codec has, whatever the codec was fed
\* before the reset.
C26_ResetIsFreshInSameMode == twin.set => twin.asConfigured

\* a codec set to STRICT that held something when it was reset has since
\* refused an ill-formed input
C26_Witness ==
    /\ twin.set /\ twin.held
    /\ cdc.errormode = "STRICT"
    /\ ccall.op = "decode" /\ cret = "INVALID"

-----------------------------------------------------------------------------
(* SpecRoundTrip: bytes in an encoding E are converted to UTF-8 by a       *)
(* filter created for UTF-8 and set to read E, and the UTF-8 is converted  *)
(* back by a filter created for E.  Each filter is called again with the   *)
(* input that is left and a fresh output buffer while it answers NOMEM,    *)
(* and may be called with no input to flush it once all input is taken.    *)

\* the encodings of the registry that have a codec
RoundTripMibs == {MIB_UTF8, MIB_LATIN1}

\* fmark.set tells the way back from the way out; fmark.src keeps the UTF-8
InitRoundTrip ==
    /\ StreamIdle /\ CodecIdle /\ AliasIdle /\ ThreadIdle
    /\ MemIdle /\ UtilIdle
    /\ \E mib \in RoundTripMibs :
           flt = filter_set_encoding(parserutils_filter_create(MIB_UTF8), mib,
                                     TRUE).f
    /\ fsrc \in FilterInputs
    /\ fin = fsrc /\ fout = <<>> /\ fret = "NONE"
    /\ fcall = "none" /\ fmark = NoMark
    /\ fentry = [f |-> flt, data |-> <<>>, outlen |-> 0]

RoundTripProcessChunk ==
    /\ fret \in {"NONE", "NOMEM"} \/ (fret = "OK" /\ fin = <<>>)
    /\ \E outlen \in 0..MaxOut :
           \E r \in {parserutils_filter_process_chunk(flt, fin, outlen)} :
           /\ flt' = r.f
           /\ fin' = r.data
           /\ fout' = fout \o r.out
           /\ fret' = r.err
           /\ fentry' = [f |-> flt, data |-> fin, outlen |-> outlen]
    /\ fcall' = "process_chunk"
    /\ UNCHANGED <<fsrc, fmark>>
    /\ UNCHANGED nonFilterVars

\* the way out is done: the UTF-8 written is handed to a filter created for
\* the encoding the bytes came in
RoundTripTurn ==
    /\ ~fmark.set /\ fcall = "process_chunk" /\ fret = "OK" /\ fin = <<>>
    /\ flt' = parserutils_filter_create(flt.encoding)
    /\ fin' = fout /\ fout' = <<>> /\ fret' = "NONE"
    /\ fcall' = "create"
    /\ fmark' = [set |-> TRUE, held |-> FilterHolds(flt), src |-> fout,
                 out |-> 0]
    /\ fentry' = [f |-> flt', data |-> <<>>, outlen |-> 0]
    /\ UNCHANGED fsrc
    /\ UNCHANGED nonFilterVars

NextRoundTrip == RoundTripProcessChunk \/ RoundTripTurn

SpecRoundTrip == InitRoundTrip /\ [][NextRoundTrip]_vars

\* the codec of the encoding reads b without substituting or refusing
\* anything: every byte sequence is ISO-8859-1, and UTF-8 is to be well formed
Lossless(mib, b) == mib = MIB_LATIN1 \/ Utf8WellFormed(b)

\* C27: bytes b of an encoding E whose codec is lossless over b, converted to
\* UTF-8 by a filter reading E and back by a filter created for E, come out
\* as b: on the way back nothing but b is written, and all of b once the
\* filter has answered OK.
C27_RoundTrip ==
    (fmark.set /\ Lossless(flt.write_codec.mibenum, fsrc)) =>
        /\ IsPrefix(fout, fsrc)
        /\ (fcall = "process_chunk" /\ fret = "OK") => fout = fsrc

-----------------------------------------------------------------------------
(* SpecThreads: two threads, each driving a stream of its own, reach the   *)
(* first refill and call parserutils_inputstream_strip_bom.  The function  *)
(* keeps the MIB enums of the seven encodings in static variables, which   *)
(* it assigns on the call that finds utf8 zero.  A step of a thread is one *)
(* access to those variables: the test of utf8, one assignment, or the     *)
(* comparisons that follow (taken together).                               *)

\* the static variables in the order they are assigned
strip_bom_statics ==
    <<"utf8", "utf16", "utf16be", "utf16le", "utf32", "utf32be", "utf32le">>

\* the k-th assignment of the block guarded by utf8 == 0
strip_bom_assign(st, k) ==
    [st EXCEPT ![strip_bom_statics[k]] =
        parserutils_charset_mibenum_from_name(
            LoadedRegistry, UnicodeNames[strip_bom_statics[k]])]

\* the comparisons of mibenum with the static variables st, and the discard
strip_bom_compare(st, mibenum, buffer) ==
    LET strip(bom) ==
            IF bom # <<>> /\ StartsWith(buffer.data, bom)
            THEN parserutils_buffer_discard(buffer, 0, Len(bom))
            ELSE [b |-> buffer, err |-> "OK"]
    IN  strip(IF mibenum = st.utf8 THEN <<239, 187, 191>>
              ELSE IF mibenum = st.utf16be THEN <<254, 255>>
              ELSE IF mibenum = st.utf16le THEN <<255, 254>>
              ELSE IF mibenum = st.utf32be THEN <<0, 0, 254, 255>>
              ELSE IF mibenum = st.utf32le THEN <<255, 254, 0, 0>>
              ELSE <<>>)

\* the encodings the detection functions of the two streams name
ThreadMibs == {MIB_UTF8, MIB_UTF16BE, MIB_UTF16LE, MIB_UTF32LE}

\* the raw data of the two streams
ThreadDocs == { <<254, 255, 0, 65>>, <<255, 254, 65, 0>>, <<239, 187, 191, 65>>,
                <<255, 254, 0, 0>> }

\* pc: where the thread is; k: the assignment it makes next; initial, raw:
\* the raw buffer of its stream at the call and now
InitThreads ==
    /\ StreamIdle /\ FilterIdle /\ CodecIdle /\ AliasIdle /\ MemIdle /\ UtilIdle
    /\ bomstatics = NoBomStatics
    /\ threads \in [1..2 -> [pc : {"call"}, k : {1}, mibenum : ThreadMibs,
                            initial : ThreadDocs, raw : {<<>>}]]

\* the thread enters strip_bom and tests utf8
ThreadTest(t) ==
    /\ threads[t].pc = "call"
    /\ threads' = [threads EXCEPT
                      ![t].pc = IF bomstatics.utf8 = 0 THEN "assign"
                                ELSE "compare",
                      ![t].raw = threads[t].initial]
    /\ UNCHANGED bomstatics
    /\ UNCHANGED nonThreadVars

ThreadAssign(t) ==
    /\ threads[t].pc = "assign"
    /\ bomstatics' = strip_bom_assign(bomstatics, threads[t].k)
    /\ threads' = [threads EXCEPT
                      ![t].k = threads[t].k + 1,
                      ![t].pc = IF threads[t].k = Len(strip_bom_statics)
                                THEN "compare" ELSE "assign"]
    /\ UNCHANGED nonThreadVars

ThreadCompare(t) ==
    /\ threads[t].pc = "compare"
    /\ \E r \in {strip_bom_compare(
                     bomstatics, threads[t].mibenum,
                     [data |-> threads[t].raw, allocated |-> BufferInitial])} :
           threads' = [threads EXCEPT ![t].pc = "done", ![t].raw = r.b.data]
    /\ UNCHANGED bomstatics
    /\ UNCHANGED nonThreadVars

NextThreads ==
    \E t \in 1..2 : ThreadTest(t) \/ ThreadAssign(t) \/ ThreadCompare(t)

SpecThreads == InitThreads /\ [][NextThreads]_vars

\* C28: two streams driven by two threads share no state that is written:
\* under every interleaving the raw data of each stream after the byte-order
\* mark is stripped is what it is when the stream runs alone.
C28_ThreadsIndependent ==
    \A t \in 1..2 :
        threads[t].pc = "done" =>
            threads[t].raw =
                parserutils_inputstream_strip_bom(
                    threads[t].mibenum,
                    [data |-> threads[t].initial,
                     allocated |-> BufferInitial]).b.data

-----------------------------------------------------------------------------
(* SpecMem: the blocks a filter obtains from the caller's allocator.  A    *)
(* pointer is the index of its block in heap.blocks, 0 is NULL.  A block   *)
(* records whether it is live and how often it was released; heap.stale    *)
(* records that a released block was dereferenced.                         *)

MaxBlocks == 8

\* alloc(NULL, size, pw): a new block, or NULL when the allocator fails
mem_alloc(h, ok) ==
    IF ok
    THEN [h |-> [h EXCEPT !.blocks = Append(@, [live |-> TRUE, frees |-> 0])],
          p |-> Len(h.blocks) + 1]
    ELSE [h |-> h, p |-> 0]

\* alloc(p, 0, pw)
mem_free(h, p) ==
    [h EXCEPT !.blocks[p] = [live |-> FALSE, frees |-> @.frees + 1]]

\* a read or write through p
mem_use(h, p) == IF h.blocks[p].live THEN h ELSE [h EXCEPT !.stale = TRUE]

\* what the environment does to the creation of a codec: the allocator
\* fails, no handler takes the charset, iconv_open fails for one direction
CodecEnvs == {"ok", "nomem", "nohandler", "noread", "nowrite"}

iconv_codec_create_mem(h, env) ==
    LET a == mem_alloc(h, env # "nomem")
    IN  IF a.p = 0 THEN a
        ELSE IF env \in {"noread", "nowrite"}
        THEN [h |-> mem_free(mem_use(a.h, a.p), a.p), p |-> 0]
        ELSE [h |-> mem_use(a.h, a.p), p |-> a.p]

\* the UTF-8 codec: one block for the codec
charset_utf8_codec_create_mem(h, env) == mem_alloc(h, env = "ok")

parserutils_charset_codec_create_mem(h, mib, env) ==
    IF mib = 0 \/ (mib # MIB_UTF8 /\ env = "nohandler")
    THEN [h |-> h, p |-> 0]
    ELSE LET c == IF mib = MIB_UTF8
                  THEN charset_utf8_codec_create_mem(h, env)
                  ELSE iconv_codec_create_mem(h, env)
         IN  IF c.p = 0 THEN c ELSE [h |-> mem_use(c.h, c.p), p |-> c.p]

parserutils_charset_codec_destroy_mem(h, p) ==
    IF p = 0 THEN h ELSE mem_free(mem_use(h, p), p)

\* filter_set_encoding without the release of the codec it replaces
filter_set_encoding_mem_keeping_old(h, f, mib, env) ==
    IF mib = 0 THEN [h |-> h, f |-> f, err |-> "INVALID"]
    ELSE LET h0 == mem_use(h, f.ptr)
         IN  IF f.encoding = mib THEN [h |-> h0, f |-> f, err |-> "OK"]
             ELSE LET c == parserutils_charset_codec_create_mem(h0, mib, env)
                  IN  IF c.p = 0
                      THEN [h |-> c.h, f |-> [f EXCEPT !.read_codec = 0],
                            err |-> "NOMEM"]
                      ELSE [h |-> c.h,
                            f |-> [f EXCEPT !.read_codec = c.p,
                                            !.encoding = mib],
                            err |-> "OK"]

filter_set_encoding_mem(h, f, mib, env) ==
    IF mib = 0 THEN [h |-> h, f |-> f, err |-> "INVALID"]
    ELSE LET h0 == mem_use(h, f.ptr)
         IN  IF f.encoding = mib THEN [h |-> h0, f |-> f, err |-> "OK"]
             ELSE LET c == parserutils_charset_codec_create_mem(
                               parserutils_charset_codec_destroy_mem(
                                   h0, f.read_codec),
                               mib, env)
                  IN  IF c.p = 0
                      THEN [h |-> c.h, f |-> [f EXCEPT !.read_codec = 0],
                            err |-> "NOMEM"]
                      ELSE [h |-> c.h,
                            f |-> [f EXCEPT !.read_codec = c.p,
                                            !.encoding = mib],
                            err |-> "OK"]

\* envs: whether the allocator gives the filter, what happens to the
\* creation of the read codec (UTF-8) and of the write codec (int_enc), and
\* the MIB enum the alias table gives for "UTF-8" (0 when it has none)
parserutils_filter_create_mem(h, int_mib, envs) ==
    LET a == mem_alloc(h, envs.filter)
        d == filter_set_encoding_mem(
                 a.h, [NullFilter EXCEPT !.ptr = a.p], envs.utf8, envs.read)
        w == parserutils_charset_codec_create_mem(d.h, int_mib, envs.write)
    IN  IF a.p = 0 THEN [h |-> h, f |-> NullFilter]
        ELSE IF d.err # "OK"
        THEN [h |-> mem_free(mem_use(d.h, a.p), a.p), f |-> NullFilter]
        ELSE IF w.p = 0
        THEN [h |-> mem_free(
                        mem_use(parserutils_charset_codec_destroy_mem(
                                    w.h, d.f.read_codec), a.p), a.p),
              f |-> NullFilter]
        ELSE [h |-> mem_use(w.h, a.p), f |-> [d.f EXCEPT !.write_codec = w.p]]

parserutils_filter_destroy_mem(h, f) ==
    IF f.ptr = 0 THEN h
    ELSE mem_free(
             mem_use(parserutils_charset_codec_destroy_mem(
                         parserutils_charset_codec_destroy_mem(
                             mem_use(h, f.ptr), f.read_codec),
                         f.write_codec), f.ptr),
             f.ptr)

\* data: *len > 0; room: the write codec finds room for all it is given.
\* A codec is dereferenced by the call only when its pointer is not NULL.
parserutils_filter_process_chunk_mem(h, f, data, room) ==
    LET codec(hh, p) == IF p = 0 THEN hh ELSE mem_use(hh, p)
        h0 == mem_use(h, f.ptr)
        h1 == IF f.leftover THEN codec(h0, f.write_codec) ELSE h0
        f1 == [f EXCEPT !.leftover = FALSE]
    IN  IF f.leftover /\ f.write_codec = 0
        THEN [h |-> h1, f |-> f, err |-> "BADPARM"]
        ELSE IF f.leftover /\ ~room THEN [h |-> h1, f |-> f, err |-> "NOMEM"]
        ELSE IF ~data THEN [h |-> h1, f |-> f1, err |-> "OK"]
        ELSE IF f.read_codec = 0 THEN [h |-> h1, f |-> f1, err |-> "BADPARM"]
        ELSE IF room
        THEN [h |-> codec(codec(h1, f.read_codec), f.write_codec),
              f |-> f1, err |-> "OK"]
        ELSE [h |-> codec(codec(h1, f.read_codec), f.write_codec),
              f |-> [f EXCEPT !.leftover = TRUE], err |-> "NOMEM"]

parserutils_filter_reset_mem(h, f) ==
    LET h0 == mem_use(h, f.ptr)
        f1 == [f EXCEPT !.leftover = FALSE]
    IN  IF f.read_codec = 0 THEN [h |-> h0, f |-> f1, err |-> "BADPARM"]
        ELSE [h |-> mem_use(mem_use(h0, f.read_codec), f.write_codec),
              f |-> f1, err |-> "OK"]

\* the encodings named to create and to setopt; 0 is a name that does not
\* canonicalise
MemMibs == {0, MIB_UTF8, MIB_LATIN1, MIB_UTF16LE}

InitMem ==
    /\ StreamIdle /\ FilterIdle /\ CodecIdle /\ AliasIdle /\ ThreadIdle
    /\ UtilIdle
    /\ heap = NoHeap
    /\ hfilter = NullFilter
    /\ hcall = NoMemCall

MemCalled(op, err) ==
    [op |-> op, ret |-> err,
     failed |-> IF op = "create" THEN FALSE ELSE hcall.failed \/ err # "OK"]

MemCreate ==
    /\ hfilter.ptr = 0
    /\ Len(heap.blocks) + 3 <= MaxBlocks
    /\ \E int_mib \in MemMibs, ok \in BOOLEAN, er \in CodecEnvs,
          ew \in CodecEnvs :
           \E r \in {parserutils_filter_create_mem(
                         heap, int_mib,
                         [filter |-> ok, read |-> er, write |-> ew,
                          utf8 |-> MIB_UTF8])} :
               /\ heap' = r.h
               /\ hfilter' = r.f
               /\ hcall' = MemCalled("create",
                                     IF r.f.ptr = 0 THEN "NULL" ELSE "OK")
    /\ UNCHANGED nonMemVars

MemSetopt ==
    /\ hfilter.ptr # 0
    /\ Len(heap.blocks) + 1 <= MaxBlocks
    /\ \E mib \in MemMibs, env \in CodecEnvs :
           \E r \in {filter_set_encoding_mem(heap, hfilter, mib, env)} :
               /\ heap' = r.h
               /\ hfilter' = r.f
               /\ hcall' = MemCalled("setopt", r.err)
    /\ UNCHANGED nonMemVars

MemProcessChunk ==
    /\ hfilter.ptr # 0
    /\ \E data \in BOOLEAN, room \in BOOLEAN :
           \E r \in {parserutils_filter_process_chunk_mem(
                         heap, hfilter, data, room)} :
               /\ heap' = r.h
               /\ hfilter' = r.f
               /\ hcall' = MemCalled("process_chunk", r.err)
    /\ UNCHANGED nonMemVars

MemReset ==
    /\ hfilter.ptr # 0
    /\ \E r \in {parserutils_filter_reset_mem(heap, hfilter)} :
           /\ heap' = r.h
           /\ hfilter' = r.f
           /\ hcall' = MemCalled("reset", r.err)
    /\ UNCHANGED nonMemVars

\* the client keeps no pointer to a filter it destroyed
MemDestroy ==
    /\ hfilter.ptr # 0
    /\ heap' = parserutils_filter_destroy_mem(heap, hfilter)
    /\ hfilter' = NullFilter
    /\ hcall' = [hcall EXCEPT !.op = "destroy", !.ret = "OK"]
    /\ UNCHANGED nonMemVars

NextMem ==
    MemCreate \/ MemSetopt \/ MemProcessChunk \/ MemReset \/ MemDestroy

SpecMem == InitMem /\ [][NextMem]_vars

\* the blocks the filter holds: itself and its two codecs
Held(f) == {f.ptr, f.read_codec, f.write_codec} \ {0}

\* C29: whatever calls were made on a filter, failing ones included, no
\* released block is used, no block is released twice, the live blocks are
\* the filter and its codecs, and once the filter is destroyed (or its
\* creation failed) every block handed out has been released exactly once.
C29_FilterBlocksReleasedOnce ==
    /\ ~heap.stale
    /\ \A p \in 1..Len(heap.blocks) :
           /\ heap.blocks[p].frees = (IF heap.blocks[p].live THEN 0 ELSE 1)
           /\ heap.blocks[p].live <=> p \in Held(hfilter)
    /\ Held(hfilter) \subseteq 1..Len(heap.blocks)

\* a filter whose read codec was replaced, on which a call failed, destroyed
C29_Witness ==
    /\ hcall.op = "destroy"
    /\ hcall.failed
    /\ Len(heap.blocks) >= 4
    /\ \A p \in 1..Len(heap.blocks) :
           ~heap.blocks[p].live /\ heap.blocks[p].frees = 1

-----------------------------------------------------------------------------
(* SpecDestroy: the destructors called with a NULL object, between the     *)
(* calls of SpecMem, which give the heap its contents.  A destructor       *)
(* yields the set of outcomes of the call: the heap after it and what it   *)
(* returned ("VOID" for a destructor without a result).  A read through    *)
(* NULL is undefined: the call faults, or goes on with what it read and    *)
(* releases through it, here any live block.                               *)

mem_null_deref(h) ==
    {[h |-> h, ret |-> "FAULT"]}
        \cup {[h |-> mem_free(h, q), ret |-> "VOID"] :
                  q \in {p \in 1..Len(h.blocks) : h.blocks[p].live}}

\* the object's own block is released; the release of its members is not
\* modelled, the destructors below are called with NULL only
mem_released(h, p, ret) == {[h |-> mem_free(mem_use(h, p), p), ret |-> ret]}

parserutils_inputstream_destroy_mem(h, stream_) ==
    IF stream_ = 0 THEN {[h |-> h, ret |-> "VOID"]}
    ELSE mem_released(h, stream_, "VOID")

parserutils_dict_destroy_mem(h, dict) ==
    IF dict = 0 THEN mem_null_deref(h) ELSE mem_released(h, dict, "VOID")

parserutils_vector_destroy_mem(h, vector) ==
    IF vector = 0 THEN {[h |-> h, ret |-> "VOID"]}
    ELSE mem_released(h, vector, "VOID")

parserutils_rbtree_destroy_mem(h, tree) ==
    IF tree = 0 THEN {[h |-> h, ret |-> "BADPARM"]}
    ELSE mem_released(h, tree, "OK")

parserutils_hash_destroy_mem(h, hash) ==
    IF hash = 0 THEN {[h |-> h, ret |-> "BADPARM"]}
    ELSE mem_released(h, hash, "OK")

parserutils_chunkarray_destroy_mem(h, array) ==
    IF array = 0 THEN {[h |-> h, ret |-> "BADPARM"]}
    ELSE mem_released(h, array, "OK")

Destructors ==
    {"filter", "inputstream", "codec", "dict", "vector", "rbtree", "hash",
     "chunkarray"}

destroy_mem(kind, h, p) ==
    CASE kind = "filter" ->
             {[h |-> parserutils_filter_destroy_mem(
                         h, [NullFilter EXCEPT !.ptr = p]),
               ret |-> "VOID"]}
      [] kind = "codec" ->
             {[h |-> parserutils_charset_codec_destroy_mem(h, p),
               ret |-> "VOID"]}
      [] kind = "inputstream" -> parserutils_inputstream_destroy_mem(h, p)
      [] kind = "dict" -> parserutils_dict_destroy_mem(h, p)
      [] kind = "vector" -> parserutils_vector_destroy_mem(h, p)
      [] kind = "rbtree" -> parserutils_rbtree_destroy_mem(h, p)
      [] kind = "hash" -> parserutils_hash_destroy_mem(h, p)
      [] kind = "chunkarray" -> parserutils_chunkarray_destroy_mem(h, p)

DestroyNull(kind) ==
    /\ \E r \in destroy_mem(kind, heap, 0) :
           /\ heap' = r.h
           /\ hcall' = [op |-> kind, ret |-> r.ret, failed |-> hcall.failed]
    /\ UNCHANGED hfilter
    /\ UNCHANGED nonMemVars

NextDestroy ==
    \/ MemCreate \/ MemSetopt \/ MemProcessChunk \/ MemReset \/ MemDestroy
    \/ \E kind \in Destructors : DestroyNull(kind)

SpecDestroy == InitMem /\ [][NextDestroy]_vars

\* C30: every destructor called with NULL returns without a read through
\* the pointer and leaves every block as it was.
C30_DestroyNullChangesNothing ==
    [][\A kind \in Destructors :
           DestroyNull(kind) => (hcall'.ret # "FAULT" /\ heap' = heap)]_vars

-----------------------------------------------------------------------------
\* C31: for a stream whose encoding is plain UTF-16, a byte-order mark (FE FF
\* or FF FE) at the start of the input is removed by the first refill: what
\* the stream delivers and holds unread is the conversion of the appended
\* bytes without their first two.
C31_PlainUtf16BomStripped ==
    (/\ stream.done_first_chunk
     /\ stream.mibenum = MIB_UTF16
     /\ (StartsWith(appended, <<254, 255>>) \/ StartsWith(appended, <<255, 254>>)))
        => IsPrefix(delivered \o Unread(stream), Utf8Loose(Drop(appended, 2)))

-----------------------------------------------------------------------------
\* C32: in every state a filter can be in, a second reset right after a
\* reset returns what the first returned and leaves the filter (leftover,
\* pivot_left, pivot_len, both codecs) as the first left it.
C32_ResetTwiceIsResetOnce ==
    LET again(once) ==
            LET twice == parserutils_filter_reset(once.f)
            IN  twice.f = once.f /\ twice.err = once.err
    IN  again(parserutils_filter_reset(flt))

\* a reset that found something retained in the filter and cleared it
C32_Witness ==
    /\ fcall = "reset" /\ fret = "OK"
    /\ fmark.set /\ fmark.held
    /\ ~FilterHolds(flt)

-----------------------------------------------------------------------------
(* SpecLife: the library initialised and finalised, and UTF-8 objects      *)
(* created and destroyed in between, before and after.  hfilter holds the  *)
(* one object the client has: its kind, its filter (the filter itself, or  *)
(* the filter of a stream) and the other blocks it owns.  query is the     *)
(* history of the library: whether, since the last finalise, an initialise *)
(* on a file with a record for UTF-8 has returned OK.                      *)

\* filename: <<>> for a file that cannot be opened
parserutils_charset_initialise(reg, opened, file, failing) ==
    LET RECURSIVE load(_, _)
        \* the records from the i-th on; the allocation of the canon of
        \* record failing is refused
        load(r, i) ==
            IF i > Len(file) THEN r
            ELSE load(aliases_create_record(
                          r, file[i], [k \in 1..8 |-> i # failing]), i + 1)
    IN  IF ~opened THEN [reg |-> reg, err |-> "FILENOTFOUND"]
        ELSE [reg |-> load(reg, 1), err |-> "OK"]

parserutils_charset_finalise(reg) ==
    [reg |-> parserutils_charset_aliases_destroy(reg), err |-> "OK"]

\* the alias files of the library's life: the model's file, UTF-8 and
\* ISO-8859-1 only, ISO-8859-1 only
LifeFiles ==
    {AliasFile, <<AliasFile[3], AliasFile[10]>>, <<AliasFile[10]>>}

DefinesUtf8(file) ==
    \E i \in 1..Len(file) : file[i].name = UnicodeNames.utf8

NoObject == [kind |-> "none", f |-> NullFilter, own |-> <<>>]

\* the allocator satisfies every request of a creation
AllGiven(utf8) == [filter |-> TRUE, read |-> "ok", write |-> "ok", utf8 |-> utf8]

\* the stream, its two buffers (one block each), its filter
parserutils_inputstream_create_mem(h, utf8) ==
    LET st == mem_alloc(h, TRUE)
        raw == mem_alloc(st.h, TRUE)
        u8 == mem_alloc(raw.h, TRUE)
        fl == parserutils_filter_create_mem(u8.h, utf8, AllGiven(utf8))
    IN  IF fl.f.ptr = 0
        THEN [h |-> mem_free(mem_free(mem_free(fl.h, u8.p), raw.p), st.p),
              o |-> NoObject]
        ELSE [h |-> fl.h,
              o |-> [kind |-> "inputstream", f |-> fl.f,
                     own |-> <<st.p, raw.p, u8.p>>]]

\* creation of an object for the name "UTF-8", which the alias table
\* resolves to the MIB enum utf8
create_mem(kind, h, utf8) ==
    IF kind = "inputstream" THEN parserutils_inputstream_create_mem(h, utf8)
    ELSE IF kind = "filter"
    THEN LET fl == parserutils_filter_create_mem(h, utf8, AllGiven(utf8))
         IN  [h |-> fl.h,
              o |-> IF fl.f.ptr = 0 THEN NoObject
                    ELSE [kind |-> "filter", f |-> fl.f, own |-> <<>>]]
    ELSE LET c == parserutils_charset_codec_create_mem(h, utf8, "ok")
         IN  [h |-> c.h,
              o |-> IF c.p = 0 THEN NoObject
                    ELSE [kind |-> "codec", f |-> NullFilter, own |-> <<c.p>>]]

\* the destructor of the object's kind
object_destroy_mem(h, o) ==
    IF o.kind = "codec"
    THEN parserutils_charset_codec_destroy_mem(h, o.own[1])
    ELSE IF o.kind = "filter" THEN parserutils_filter_destroy_mem(h, o.f)
    ELSE mem_free(
             mem_free(
                 mem_free(parserutils_filter_destroy_mem(
                              mem_use(h, o.own[1]), o.f),
                          o.own[3]),
                 o.own[2]),
             o.own[1])

InitLife ==
    /\ StreamIdle /\ FilterIdle /\ CodecIdle /\ ThreadIdle
    /\ UtilIdle
    /\ registry = EmptyRegistry /\ statics = NoStatics
    /\ query = [op |-> "none", ret |-> "NONE", loaded |-> FALSE]
    /\ heap = NoHeap
    /\ hfilter = NoObject
    /\ hcall = [op |-> "none", ret |-> "NONE", loaded |-> FALSE]

LifeInitialise ==
    /\ query.op # "initialise" \/ query.ret # "OK"
    /\ \E file \in LifeFiles, opened \in BOOLEAN :
           \E failing \in 0..Len(file) :
               \E r \in {parserutils_charset_initialise(
                             registry, opened, file, failing)} :
                   /\ registry' = r.reg
                   /\ query' = [op |-> "initialise", ret |-> r.err,
                                loaded |-> \/ query.loaded
                                           \/ r.err = "OK" /\ DefinesUtf8(file)]
    /\ UNCHANGED <<statics, memVars>>
    /\ UNCHANGED <<streamVars, filterVars, codecVars, threadVars, treeVars, hashVars>>

\* the client has destroyed its objects before it finalises
LifeFinalise ==
    /\ hfilter = NoObject
    /\ \E r \in {parserutils_charset_finalise(registry)} :
           /\ registry' = r.reg
           /\ query' = [op |-> "finalise", ret |-> r.err, loaded |-> FALSE]
    /\ UNCHANGED <<statics, memVars>>
    /\ UNCHANGED <<streamVars, filterVars, codecVars, threadVars, treeVars, hashVars>>

LifeCreate ==
    /\ hfilter = NoObject
    /\ Len(heap.blocks) + 6 <= MaxBlocks
    /\ \E kind \in {"filter", "codec", "inputstream"} :
           \E r \in {create_mem(kind, heap,
                                parserutils_charset_mibenum_from_name(
                                    registry, UnicodeNames.utf8))} :
               /\ heap' = r.h
               /\ hfilter' = r.o
               /\ hcall' = [op |-> kind,
                            ret |-> IF r.o = NoObject THEN "NULL" ELSE "OK",
                            loaded |-> query.loaded]
    /\ UNCHANGED <<registry, statics, query>>
    /\ UNCHANGED <<streamVars, filterVars, codecVars, threadVars, treeVars, hashVars>>

LifeDestroy ==
    /\ hfilter # NoObject
    /\ heap' = object_destroy_mem(heap, hfilter)
    /\ hfilter' = NoObject
    /\ hcall' = [hcall EXCEPT !.op = "destroy"]
    /\ UNCHANGED <<registry, statics, query>>
    /\ UNCHANGED <<streamVars, filterVars, codecVars, threadVars, treeVars, hashVars>>

NextLife == LifeInitialise \/ LifeFinalise \/ LifeCreate \/ LifeDestroy

SpecLife == InitLife /\ [][NextLife]_vars

\* C33: the creation of a UTF-8 filter, codec or stream returns an object
\* exactly when, since the last finalise, an initialise on a file that
\* defines UTF-8 has returned OK; once the client has destroyed its object
\* every block is released, and finalise returns OK.
C33_CreationWhileLoaded ==
    /\ hcall.op \in {"filter", "codec", "inputstream"}
           => (hcall.ret = "OK" <=> hcall.loaded)
    /\ hfilter = NoObject
           => \A p \in 1..Len(heap.blocks) :
                  ~heap.blocks[p].live /\ heap.blocks[p].frees = 1
    /\ ~heap.stale
    /\ query.op = "finalise" => query.ret = "OK"

-----------------------------------------------------------------------------
\* C34: from the first refill on, the encoding the stream records (and
\* read_charset reports) is the encoding its filter decodes the raw bytes
\* with.
C34_ReportedEncodingIsFilterEncoding ==
    stream.done_first_chunk => stream.mibenum = stream.input.encoding

-----------------------------------------------------------------------------
\* C35: a peek, with the refill it may trigger and whatever that refill
\* returns, leaves the logical position where it was: the bytes unread
\* before the call are, in order, the first unread bytes after it.
C35_RefillKeepsPosition ==
    [][(result'.op = "peek" /\ ~aborted')
           => IsPrefix(Unread(stream), Unread(stream'))]_vars

-----------------------------------------------------------------------------
\* C36: between calls on a filter, whenever leftover is true, pivot_left
\* points at code points of pivot_buf still to be written and pivot_len,
\* their length in bytes, is greater than 0.
C36_LeftoverHasPivot ==
    flt.leftover =>
        /\ flt.pivot_len > 0
        /\ flt.pivot_len = 4 * Len(flt.pivot_left)
        /\ Len(flt.pivot_left) <= PivotChars

-----------------------------------------------------------------------------
\* converted data is retained in the filter: code points in the pivot, a
\* decoded character in the read codec or one not yet written in the write
\* codec (an incomplete input sequence is not counted)
RetainsConverted(f) ==
    \/ f.leftover \/ f.pivot_left # <<>>
    \/ f.read_codec.read_buf # <<>>
    \/ f.write_codec.write_buf # <<>>

\* C37: a process_chunk called with an input length of 0 that returns OK has
\* flushed the filter: no converted data is retained in the pivot buffer or
\* in either codec.
C37_EmptyInputFlushes ==
    [][(fcall' = "process_chunk" /\ fentry'.data = <<>> /\ fret' = "OK")
           => ~RetainsConverted(flt')]_vars

-----------------------------------------------------------------------------
(* The red-black tree (src/utils/rbtree.c).  An rbnode is a record of its   *)
(* five fields, a child pointer being the child itself and NullNode a NULL  *)
(* pointer.  Keys are the integers the tests cast to pointers, compared by  *)
(* subtraction; a key or value of 0 is a NULL pointer.                      *)

RED == TRUE
BLACK == FALSE

MaxKey == 5
MaxValue == 2
TreeKeys == 1..MaxKey
TreeValues == 1..MaxValue

rbnode_create(key, value) ==
    [left |-> NullNode, right |-> NullNode, colour |-> RED,
     key |-> key, value |-> value]

isRed(node) == IF node = NullNode THEN FALSE ELSE node.colour = RED

flipped(node) ==
    IF node = NullNode THEN node ELSE [node EXCEPT !.colour = ~@]

colourFlip(node) ==
    [node EXCEPT !.colour = ~@, !.left = flipped(@), !.right = flipped(@)]

rotateLeft(node) ==
    LET r == node.right
    IN  [r EXCEPT !.left = [node EXCEPT !.right = r.left, !.colour = RED],
                  !.colour = node.colour]

rotateRight(node) ==
    LET l == node.left
    IN  [l EXCEPT !.right = [node EXCEPT !.left = l.right, !.colour = RED],
                  !.colour = node.colour]

moveRedLeft(node) ==
    LET n1 == colourFlip(node)
    IN  IF n1.right # NullNode /\ isRed(n1.right.left)
        THEN LET n2 == [n1 EXCEPT !.right = rotateRight(@)]
                 n3 == colourFlip(rotateLeft(n2))
             IN  IF n3.right # NullNode /\ isRed(n3.right.right)
                 THEN [n3 EXCEPT !.right = rotateLeft(@)]
                 ELSE n3
        ELSE n1

moveRedRight(node) ==
    LET n1 == colourFlip(node)
    IN  IF n1.left # NullNode /\ isRed(n1.left.left)
        THEN colourFlip(rotateRight(n1))
        ELSE n1

fixUp(node) ==
    LET n1 == IF node.right # NullNode /\ isRed(node.right)
              THEN rotateLeft(node) ELSE node
        n2 == IF n1.left # NullNode /\ isRed(n1.left)
              THEN IF n1.left.left # NullNode /\ isRed(n1.left.left)
                   THEN rotateRight(n1)
                   ELSE IF n1.left.right # NullNode /\ isRed(n1.left.right)
                        THEN [n1 EXCEPT
                                 !.left = [rotateLeft(@) EXCEPT
                                               !.colour = BLACK]]
                        ELSE n1
              ELSE n1
    IN  IF isRed(n2.left) /\ isRed(n2.right) THEN colourFlip(n2) ELSE n2

RECURSIVE findMin(_)
findMin(node) == IF node.left # NullNode THEN findMin(node.left) ELSE node

\* the destructor passed by rbtree_delete_internal is NULL; the node is freed
\* (the assert between the move and the recursion is not part of the model)
RECURSIVE deleteMin(_)
deleteMin(node) ==
    IF node.left = NullNode
    THEN NullNode
    ELSE LET n1 == IF ~isRed(node.left) /\ ~isRed(node.left.left)
                   THEN moveRedLeft(node) ELSE node
         IN  fixUp([n1 EXCEPT !.left = deleteMin(@)])

\* the two rotations that end rbtree_insert_internal
insert_balance(current) ==
    LET c1 == IF isRed(current.right) THEN rotateLeft(current) ELSE current
    IN  IF isRed(c1.left) /\ isRed(c1.left.left)
        THEN rotateRight(c1) ELSE c1

\* node is what the function returns; cur is the subtree the caller's
\* pointer designates afterwards (the function works in place, so a failed
\* call leaves its colour flips behind); wrote tells whether *oldvalue was
\* assigned, and oldvalue what
RECURSIVE rbtree_insert_internal(_, _, _, _)
rbtree_insert_internal(current, key, value, allocok) ==
    IF current = NullNode
    THEN IF allocok
         THEN [node |-> rbnode_create(key, value), cur |-> NullNode,
               wrote |-> TRUE, oldvalue |-> 0]
         ELSE [node |-> NullNode, cur |-> NullNode,
               wrote |-> FALSE, oldvalue |-> 0]
    ELSE LET c1 == IF isRed(current.left) /\ isRed(current.right)
                   THEN colourFlip(current) ELSE current
             cmp == key - c1.key
         IN  IF cmp = 0
             THEN LET c2 == insert_balance([c1 EXCEPT !.value = value])
                  IN  [node |-> c2, cur |-> c2,
                       wrote |-> TRUE, oldvalue |-> c1.value]
             ELSE IF cmp < 0
             THEN LET temp == rbtree_insert_internal(
                                  c1.left, key, value, allocok)
                  IN  IF temp.node = NullNode
                      THEN [temp EXCEPT
                                !.cur = [c1 EXCEPT !.left = temp.cur]]
                      ELSE LET c2 == insert_balance(
                                        [c1 EXCEPT !.left = temp.node])
                           IN  [temp EXCEPT !.node = c2, !.cur = c2]
             ELSE LET temp == rbtree_insert_internal(
                                  c1.right, key, value, allocok)
                  IN  IF temp.node = NullNode
                      THEN [temp EXCEPT
                                !.cur = [c1 EXCEPT !.right = temp.cur]]
                      ELSE LET c2 == insert_balance(
                                        [c1 EXCEPT !.right = temp.node])
                           IN  [temp EXCEPT !.node = c2, !.cur = c2]

\* root is tree->root; the tree pointer and the oldvalue pointer are given
parserutils_rbtree_insert(root, key, value, allocok) ==
    IF key = 0
    THEN [root |-> root, err |-> "BADPARM", wrote |-> FALSE, value |-> 0]
    ELSE LET temp == rbtree_insert_internal(root, key, value, allocok)
         IN  IF temp.node = NullNode
             THEN [root |-> temp.cur, err |-> "NOMEM",
                   wrote |-> temp.wrote, value |-> temp.oldvalue]
             ELSE [root |-> [temp.node EXCEPT !.colour = BLACK],
                   err |-> "OK",
                   wrote |-> temp.wrote, value |-> temp.oldvalue]

RECURSIVE rbtree_find_from(_, _)
rbtree_find_from(node, key) ==
    IF node = NullNode
    THEN 0
    ELSE LET cmp == key - node.key
         IN  IF cmp = 0 THEN node.value
             ELSE IF cmp < 0 THEN rbtree_find_from(node.left, key)
             ELSE rbtree_find_from(node.right, key)

parserutils_rbtree_find(root, key) ==
    IF key = 0
    THEN [root |-> root, err |-> "BADPARM", wrote |-> FALSE, value |-> 0]
    ELSE [root |-> root, err |-> "OK", wrote |-> TRUE,
          value |-> rbtree_find_from(root, key)]

\* node is what the function returns; wrote tells whether *intkey and
\* *value were assigned, and intkey and value what
RECURSIVE rbtree_delete_internal(_, _)
rbtree_delete_internal(current, key) ==
    IF current = NullNode
    THEN [node |-> NullNode, wrote |-> FALSE, intkey |-> 0, value |-> 0]
    ELSE LET cmp == key - current.key
         IN  IF cmp < 0
             THEN LET c1 == IF /\ current.left # NullNode
                               /\ ~isRed(current.left)
                               /\ ~isRed(current.left.left)
                            THEN moveRedLeft(current) ELSE current
                      temp == rbtree_delete_internal(c1.left, key)
                  IN  [temp EXCEPT
                           !.node = fixUp([c1 EXCEPT !.left = temp.node])]
             ELSE LET c1 == IF isRed(current.left)
                            THEN rotateRight(current) ELSE current
                  IN  IF cmp = 0 /\ c1.right = NullNode
                      THEN [node |-> NullNode, wrote |-> TRUE,
                            intkey |-> c1.key, value |-> c1.value]
                      ELSE LET c2 == IF /\ c1.right # NullNode
                                        /\ ~isRed(c1.right)
                                        /\ ~isRed(c1.right.left)
                                     THEN moveRedRight(c1) ELSE c1
                           IN  IF key - c2.key = 0
                               THEN LET successor == findMin(c2.right)
                                    IN  [node |-> fixUp(
                                             [c2 EXCEPT
                                                 !.value = successor.value,
                                                 !.key = successor.key,
                                                 !.right = deleteMin(@)]),
                                         wrote |-> TRUE,
                                         intkey |-> c2.key,
                                         value |-> c2.value]
                               ELSE LET temp == rbtree_delete_internal(
                                                    c2.right, key)
                                    IN  [temp EXCEPT
                                             !.node = fixUp(
                                                 [c2 EXCEPT
                                                     !.right = temp.node])]

parserutils_rbtree_delete(root, key) ==
    IF key = 0
    THEN [root |-> root, err |-> "BADPARM", wrote |-> FALSE,
          intkey |-> 0, value |-> 0]
    ELSE IF root = NullNode
    THEN [root |-> root, err |-> "OK", wrote |-> TRUE,
          intkey |-> 0, value |-> 0]
    ELSE LET temp == rbtree_delete_internal(root, key)
         IN  [root |-> IF temp.node # NullNode
                       THEN [temp.node EXCEPT !.colour = BLACK]
                       ELSE temp.node,
              err |-> "OK", wrote |-> temp.wrote,
              intkey |-> temp.intkey, value |-> temp.value]

\* the first invalid node in the order the function visits them, or NullNode
RECURSIVE verify_tree_internal(_)
verify_tree_internal(node) ==
    IF node = NullNode THEN NullNode
    ELSE IF isRed(node) /\ (isRed(node.left) \/ isRed(node.right)) THEN node
    ELSE IF isRed(node.right) /\ ~isRed(node.left) THEN node
    ELSE IF isRed(node.left) /\ isRed(node.left.left) THEN node
    ELSE IF isRed(node.right) /\ isRed(node.right.right) THEN node
    ELSE IF verify_tree_internal(node.left) # NullNode
         THEN verify_tree_internal(node.left)
         ELSE verify_tree_internal(node.right)

InitTree ==
    /\ StreamIdle /\ FilterIdle /\ CodecIdle /\ AliasIdle /\ ThreadIdle
    /\ MemIdle /\ HashIdle
    /\ rbtree = NullNode
    /\ tcall = NoTreeCall
    /\ tmap = [k \in TreeKeys |-> 0]

\* prev is what the history held for the key when the call was made
TreeCalled(op, key, arg, r) ==
    [op |-> op, key |-> key, arg |-> arg, ret |-> r.err, wrote |-> r.wrote,
     value |-> r.value, prev |-> tmap[key]]

TreeInsert ==
    /\ \E key \in TreeKeys, value \in TreeValues, allocok \in BOOLEAN :
           \E r \in {parserutils_rbtree_insert(rbtree, key, value, allocok)} :
               /\ rbtree' = r.root
               /\ tcall' = TreeCalled("insert", key, value, r)
               /\ tmap' = IF r.err = "OK"
                          THEN [tmap EXCEPT ![key] = value] ELSE tmap
    /\ UNCHANGED nonTreeVars

TreeDelete ==
    /\ \E key \in TreeKeys :
           \E r \in {parserutils_rbtree_delete(rbtree, key)} :
               /\ rbtree' = r.root
               /\ tcall' = TreeCalled("delete", key, 0, r)
               /\ tmap' = IF r.err = "OK"
                          THEN [tmap EXCEPT ![key] = 0] ELSE tmap
    /\ UNCHANGED nonTreeVars

TreeFind ==
    /\ \E key \in TreeKeys :
           \E r \in {parserutils_rbtree_find(rbtree, key)} :
               /\ rbtree' = r.root
               /\ tcall' = TreeCalled("find", key, 0, r)
    /\ UNCHANGED <<tmap, nonTreeVars>>

NextTree == TreeInsert \/ TreeDelete \/ TreeFind

SpecTree == InitTree /\ [][NextTree]_vars

\* C38: the tree is a map from keys to values.  After any sequence of
\* inserts and deletes, find(k) gives the value most recently inserted for k
\* if k was inserted and not deleted since, and NULL otherwise; an insert
\* that returns OK reports the value the key had (NULL for a new key); a
\* delete returns OK, of an absent key too, and (find agreeing with the
\* history of every other key) changes no other mapping.
C38_TreeIsAMap ==
    /\ \A k \in TreeKeys : rbtree_find_from(rbtree, k) = tmap[k]
    /\ (tcall.op = "insert" /\ tcall.ret = "OK")
           => (tcall.wrote /\ tcall.value = tcall.prev)
    /\ tcall.op = "delete" => tcall.ret = "OK"
    /\ (tcall.op = "find")
           => (tcall.ret = "OK" /\ tcall.value = tmap[tcall.key])

\* the keys of a subtree from left to right
RECURSIVE tree_keys(_)
tree_keys(node) ==
    IF node = NullNode
    THEN <<>>
    ELSE tree_keys(node.left) \o <<node.key>> \o tree_keys(node.right)

\* the numbers of black nodes met on the paths from a node to its leaves
RECURSIVE black_heights(_)
black_heights(node) ==
    IF node = NullNode
    THEN {0}
    ELSE {h + (IF isRed(node) THEN 0 ELSE 1) :
              h \in black_heights(node.left) \cup black_heights(node.right)}

RECURSIVE red_rules(_)
red_rules(node) ==
    \/ node = NullNode
    \/ /\ isRed(node) => (~isRed(node.left) /\ ~isRed(node.right))
       /\ ~(isRed(node.right) /\ ~isRed(node.left))
       /\ red_rules(node.left)
       /\ red_rules(node.right)

\* C39: after every insert or delete that returns OK, of an absent key too,
\* the tree is a valid left-leaning red-black search tree: its keys are in
\* strictly increasing order from left to right, the root is black, no red
\* node has a red child, no node has a red right child with a black left
\* child, every path from the root to a leaf passes the same number of black
\* nodes, and verify_tree_internal finds no invalid node.
C39_TreeIsLeftLeaningRedBlack ==
    (tcall.op \in {"insert", "delete"} /\ tcall.ret = "OK")
        => /\ \A i \in 1..(Len(tree_keys(rbtree)) - 1) :
                  tree_keys(rbtree)[i] < tree_keys(rbtree)[i + 1]
           /\ ~isRed(rbtree)
           /\ red_rules(rbtree)
           /\ Cardinality(black_heights(rbtree)) = 1
           /\ verify_tree_internal(rbtree) = NullNode

-----------------------------------------------------------------------------
(* The interning hash (src/utils/hash.c) over the chunk array               *)
(* (utils/chunkarray.c).  A chunk is a record of its used count and of the  *)
(* bytes of its data array; a pointer to an entry is the index of its chunk *)
(* in the order of allocation and its offset in that chunk's data.  The     *)
(* slot table starts with DEFAULT_SLOTS slots and a chunk holds CHUNK_SIZE  *)
(* bytes, both scaled down from the source's 64 and 4096.                   *)

DEFAULT_SLOTS == 4
CHUNK_SIZE == 8
\* sizeof(parserutils_chunkarray_entry): the uint16_t length
ENTRY_HEADER == 2
MaxEntries == 5
MaxPrefix == 1

NullEntry == [chunk |-> 0, off |-> 0]
\* where the data argument points when it is a buffer of the caller's own
CallerBuffer == [chunk |-> 0, off |-> 1]

ALIGN(val) == ((val + 3) \div 4) * 4

\* a uint32_t value is its two 16-bit halves
u32(n) == [hi |-> n \div 65536, lo |-> n % 65536]
xor32(a, b) == [hi |-> BitXor(a.hi, b.hi), lo |-> BitXor(a.lo, b.lo)]
add32(a, b) ==
    [hi |-> (a.hi + b.hi + ((a.lo + b.lo) \div 65536)) % 65536,
     lo |-> (a.lo + b.lo) % 65536]
shl32(a, n) ==
    IF n < 16
    THEN [hi |-> ((a.hi * 2^n) % 65536) + ((a.lo * 2^n) \div 65536),
          lo |-> (a.lo * 2^n) % 65536]
    ELSE [hi |-> (a.lo * 2^(n - 16)) % 65536, lo |-> 0]
shr32(a, n) ==
    IF n < 16
    THEN [hi |-> a.hi \div 2^n,
          lo |-> (a.lo \div 2^n) + ((a.hi % 2^n) * 2^(16 - n))]
    ELSE [hi |-> 0, lo |-> a.hi \div 2^(n - 16)]

RECURSIVE BitAnd(_, _)
BitAnd(a, b) ==
    IF a = 0 \/ b = 0
    THEN 0
    ELSE ((a % 2) * (b % 2)) + 2 * BitAnd(a \div 2, b \div 2)

\* read16 of the two bytes at d[at] and d[at + 1] (at counts from 1)
read16(d, at) == u32(d[at + 1] * 256 + d[at])

RECURSIVE hash_words(_, _, _, _)
hash_words(data, at, len, hash) ==
    IF len = 0
    THEN hash
    ELSE LET h1 == add32(hash, read16(data, at))
             tmp == xor32(shl32(read16(data, at + 2), 11), h1)
             h2 == xor32(shl32(h1, 16), tmp)
         IN  hash_words(data, at + 4, len - 1, add32(h2, shr32(h2, 11)))

hash_avalanche(hash) ==
    LET h1 == xor32(hash, shl32(hash, 3))
        h2 == add32(h1, shr32(h1, 5))
        h3 == xor32(h2, shl32(h2, 4))
        h4 == add32(h3, shr32(h3, 17))
        h5 == xor32(h4, shl32(h4, 25))
    IN  add32(h5, shr32(h5, 6))

\* Hsieh's hash of the bytes of data
hash_hsieh(data) ==
    LET len == Len(data)
        rem == len % 4
        at == 4 * (len \div 4) + 1
        h0 == hash_words(data, 1, len \div 4, u32(len))
        h1 == IF rem = 3
              THEN LET a == add32(h0, read16(data, at))
                       b == xor32(a, shl32(a, 16))
                       c == xor32(b, shl32(u32(data[at + 2]), 18))
                   IN  add32(c, shr32(c, 11))
              ELSE IF rem = 2
              THEN LET a == add32(h0, read16(data, at))
                       b == xor32(a, shl32(a, 11))
                   IN  add32(b, shr32(b, 17))
              ELSE IF rem = 1
              THEN LET a == add32(h0, u32(data[at]))
                       b == xor32(a, shl32(a, 10))
                   IN  add32(b, shr32(b, 1))
              ELSE h0
    IN  hash_avalanche(h1)

\* the strings the client interns from buffers of its own
HashStrings ==
    {<<>>, <<97>>, <<97, 98>>, <<98, 97>>, <<97, 98, 97, 98, 97, 98, 97>>}

\* every string a call is made with, and _hash of each, computed once
InternStrings ==
    HashStrings \cup
        {[i \in 1..n |-> s[i]] : n \in 0..MaxPrefix,
                                   s \in {t \in HashStrings : Len(t) >= MaxPrefix}}
hash_of == [s \in InternStrings |-> hash_hsieh(s)]

\* _hash(data, len) & mask, for a mask below 2^16
hash_index(data, mask) == BitAnd(hash_of[data].lo, mask)

RECURSIVE memcmp(_, _)
memcmp(a, b) ==
    IF a = <<>> \/ b = <<>> THEN 0
    ELSE IF a[1] # b[1] THEN a[1] - b[1]
    ELSE memcmp(Tail(a), Tail(b))

\* _cmp: a and b are the pointers, abytes and bbytes what they point to
hash_cmp(a, abytes, b, bbytes) ==
    IF a = b
    THEN 0
    ELSE IF Len(abytes) - Len(bbytes) # 0
    THEN Len(abytes) - Len(bbytes)
    ELSE memcmp(abytes, bbytes)

\* the length field and the data of the entry at a pointer
entry_length(array, e) ==
    LET d == array.chunks[e.chunk].data
    IN  d[e.off + 1] + 256 * d[e.off + 2]

entry_data(array, e) ==
    LET d == array.chunks[e.chunk].data
    IN  [i \in 1..entry_length(array, e) |-> d[e.off + ENTRY_HEADER + i]]

\* memcpy(entry->data, data, len); entry->length = len
chunk_write(c, off, data) ==
    [c EXCEPT !.data =
        [i \in 1..Len(c.data) |->
            IF i = off + 1 THEN Len(data) % 256
            ELSE IF i = off + 2 THEN Len(data) \div 256
            ELSE IF i > off + ENTRY_HEADER /\ i <= off + ENTRY_HEADER + Len(data)
            THEN data[i - off - ENTRY_HEADER]
            ELSE c.data[i]]]

\* memory the allocator hands out is not initialised: 256 is no byte
fresh_chunk(size) == [used |-> 0, data |-> [i \in 1..size |-> 256]]

parserutils_chunkarray_create ==
    [chunks |-> <<>>, used_chunks |-> <<>>, free_chunks |-> <<>>]

\* the first chunk of the free list with room, or 0
RECURSIVE first_fit(_, _, _)
first_fit(array, list, required_length) ==
    IF list = <<>> THEN 0
    ELSE IF CHUNK_SIZE - array.chunks[list[1]].used >= required_length
    THEN list[1]
    ELSE first_fit(array, Tail(list), required_length)

parserutils_chunkarray_insert(array, data, allocok) ==
    LET required_length == ALIGN(ENTRY_HEADER + Len(data))
        new == Len(array.chunks) + 1
    IN  IF required_length > CHUNK_SIZE
        THEN IF ~allocok
             THEN [array |-> array, err |-> "NOMEM", inserted |-> NullEntry]
             ELSE LET c == [chunk_write(fresh_chunk(required_length), 0, data)
                               EXCEPT !.used = required_length]
                  IN  [array |-> [array EXCEPT
                                     !.chunks = Append(@, c),
                                     !.used_chunks = <<new>> \o @],
                       err |-> "OK",
                       inserted |-> [chunk |-> new, off |-> 0]]
        ELSE LET found == first_fit(array, array.free_chunks, required_length)
             IN  IF found = 0 /\ ~allocok
                 THEN [array |-> array, err |-> "NOMEM",
                       inserted |-> NullEntry]
                 ELSE LET a1 == IF found = 0
                                THEN [array EXCEPT
                                         !.chunks =
                                             Append(@, fresh_chunk(CHUNK_SIZE)),
                                         !.free_chunks = <<new>> \o @]
                                ELSE array
                          id == IF found = 0 THEN new ELSE found
                          off == a1.chunks[id].used
                          c == [chunk_write(a1.chunks[id], off, data)
                                   EXCEPT !.used = off + required_length]
                          a2 == [a1 EXCEPT !.chunks[id] = c]
                      IN  [array |->
                               IF c.used = CHUNK_SIZE
                               THEN [a2 EXCEPT
                                        !.free_chunks =
                                            SelectSeq(@, LAMBDA x : x # id),
                                        !.used_chunks = <<id>> \o @]
                               ELSE a2,
                           err |-> "OK",
                           inserted |-> [chunk |-> id, off |-> off]]

empty_slots(n) == [n_slots |-> n, n_used |-> 0,
                   slots |-> [i \in 1..n |-> NullEntry]]

parserutils_hash_create ==
    [slots |-> empty_slots(DEFAULT_SLOTS),
     data |-> parserutils_chunkarray_create]

\* the linear probing of parserutils_hash_insert from a slot index on: the
\* entry that compares equal, or the index of the first empty slot, or,
\* when every slot is taken by another entry, no end
RECURSIVE hash_probe(_, _, _, _, _)
hash_probe(h, ptr, data, index, steps) ==
    LET entry == h.slots.slots[index + 1]
    IN  IF entry = NullEntry
        THEN [entry |-> NullEntry, index |-> index, ends |-> TRUE]
        ELSE IF hash_cmp(ptr, data, entry, entry_data(h.data, entry)) = 0
        THEN [entry |-> entry, index |-> index, ends |-> TRUE]
        ELSE IF steps = h.slots.n_slots
        THEN [entry |-> NullEntry, index |-> index, ends |-> FALSE]
        ELSE hash_probe(h, ptr, data,
                        BitAnd(index + 1, h.slots.n_slots - 1), steps + 1)

\* the first empty slot of the new table from a slot index on
RECURSIVE grow_probe(_, _)
grow_probe(s, index) ==
    IF s.slots[index + 1] # NullEntry
    THEN grow_probe(s, BitAnd(index + 1, s.n_slots - 1))
    ELSE index

\* the loop of grow_slots over the slots i, i + 1, ... of the old table
RECURSIVE grow_populate(_, _, _)
grow_populate(h, s, i) ==
    IF i >= h.slots.n_slots
    THEN s
    ELSE LET e == h.slots.slots[i + 1]
         IN  IF e = NullEntry
             THEN grow_populate(h, s, i + 1)
             ELSE LET index == grow_probe(
                                   s, hash_index(entry_data(h.data, e),
                                                 s.n_slots - 1))
                  IN  grow_populate(
                          h,
                          [s EXCEPT !.slots[index + 1] = e,
                                    !.n_used = @ + 1],
                          i + 1)

grow_slots(h, allocok) ==
    IF ~allocok
    THEN h
    ELSE [h EXCEPT
             !.slots = grow_populate(h, empty_slots(2 * h.slots.n_slots), 0)]

\* ptr is the data argument, data the len bytes it points to
parserutils_hash_insert(h, ptr, data, chunkok, growok) ==
    IF ptr = NullEntry
    THEN [hash |-> h, err |-> "BADPARM", inserted |-> NullEntry]
    ELSE LET mask == h.slots.n_slots - 1
             at == hash_probe(h, ptr, data, hash_index(data, mask), 1)
         IN  IF ~at.ends
             THEN [hash |-> h, err |-> "NORETURN", inserted |-> NullEntry]
             ELSE IF at.entry # NullEntry
             THEN [hash |-> h, err |-> "OK", inserted |-> at.entry]
             ELSE LET r == parserutils_chunkarray_insert(
                               h.data, data, chunkok)
                  IN  IF r.err # "OK"
                      THEN [hash |-> h, err |-> r.err,
                            inserted |-> NullEntry]
                      ELSE LET h1 == [h EXCEPT
                                         !.data = r.array,
                                         !.slots.slots[at.index + 1] =
                                             r.inserted,
                                         !.slots.n_used = @ + 1]
                               n == h1.slots.n_slots
                           IN  [hash |-> IF h1.slots.n_used
                                              >= (n \div 2) + (n \div 4)
                                         THEN grow_slots(h1, growok)
                                         ELSE h1,
                                err |-> "OK", inserted |-> r.inserted]

InitIntern ==
    /\ StreamIdle /\ FilterIdle /\ CodecIdle /\ AliasIdle /\ ThreadIdle
    /\ MemIdle /\ TreeIdle
    /\ htab = parserutils_hash_create
    /\ hashcall = [op |-> "create", ptr |-> NullEntry, data |-> <<>>,
                   ret |-> "OK", inserted |-> NullEntry, slots |-> 0]
    /\ interned = {}

\* slots is the number of slots the table had when the call was made
HashInserted(ptr, data, chunkok, growok) ==
    \E r \in {parserutils_hash_insert(htab, ptr, data, chunkok, growok)} :
        /\ htab' = r.hash
        /\ hashcall' = [op |-> "insert", ptr |-> ptr, data |-> data,
                        ret |-> r.err, inserted |-> r.inserted,
                        slots |-> htab.slots.n_slots]
        /\ interned' = IF r.err = "OK"
                       THEN interned \cup
                                {[entry |-> r.inserted, data |-> data]}
                       ELSE interned

\* a call that does not return leaves the client in it
HashInsert ==
    /\ hashcall.ret # "NORETURN"
    /\ htab.slots.n_used < MaxEntries
    /\ \E data \in HashStrings, chunkok \in BOOLEAN, growok \in BOOLEAN :
           HashInserted(CallerBuffer, data, chunkok, growok)
    /\ UNCHANGED nonHashVars

\* the client interns the first len bytes of an entry it was given (a short
\* prefix, or all the bytes it asked for)
HashInsertFromEntry ==
    /\ hashcall.ret # "NORETURN"
    /\ htab.slots.n_used < MaxEntries
    /\ \E i \in interned, chunkok \in BOOLEAN, growok \in BOOLEAN :
           \E len \in {n \in 0..entry_length(htab.data, i.entry) :
                            n <= MaxPrefix \/ n = Len(i.data)} :
               HashInserted(i.entry,
                            SubSeq(entry_data(htab.data, i.entry), 1, len),
                            chunkok, growok)
    /\ UNCHANGED nonHashVars

NextIntern == HashInsert \/ HashInsertFromEntry

SpecIntern == InitIntern /\ [][NextIntern]_vars

\* C40: hash_insert interns byte strings.  Of the entries returned so far,
\* each holds the bytes it was returned for, now as when it was returned
\* (valid, unmoved, unchanged through later inserts and growth of the slot
\* table); two calls were given the same entry exactly when they were given
\* equal strings (an equal string gets the very same entry, a new string a
\* new one); and the table holds one entry per distinct string (an equal
\* string adds nothing).
C40_InsertInterns ==
    /\ \A i \in interned : entry_data(htab.data, i.entry) = i.data
    /\ \A i, j \in interned : (i.entry = j.entry) <=> (i.data = j.data)
    /\ htab.slots.n_used = Cardinality({i.data : i \in interned})

====
